---- MODULE Spec2Model ----
(***************************************************************************)
(* The control-plane gateway of moltis: the WebSocket connection lifecycle *)
(* (crates/gateway/src/ws.rs), the method registry and the authorization   *)
(* resolver (crates/gateway/src/methods.rs) and the shared gateway state   *)
(* (crates/gateway/src/state.rs).                                          *)
(***************************************************************************)
EXTENDS Integers, Sequences, FiniteSets, TLC

VARIABLES
    clients,    \* GatewayState.clients: conn_id -> ConnectedClient
    seq,        \* GatewayState.seq
    dedupe,     \* GatewayState.dedupe entries: key -> inserted_at
    pc,         \* position of each handle_connection task
    session,    \* handle_connection's locals `role` and `scopes`
    queue,      \* the client_tx/client_rx channel of each connection
    writer,     \* state of each spawned write loop
    wire,       \* frames the write loop has written to the WebSocket
    out,        \* history: frames handed to client_tx.send, in order
    lastIn,     \* history: the message handled last, or that the stream ended
    nrecv,      \* inbound messages consumed, the connect request not counted
    invoked,    \* history: the results the handlers run for a connection returned
    call,       \* the pure function under test, its arguments and result
    tick,       \* the tick timer task: its position and the frame it built
    now         \* the monotonic clock read by Instant::now()

vars == << clients, seq, dedupe, pc, session, queue, writer, wire, out,
           lastIn, nrecv, invoked, call, tick, now >>

gatewayVars == << clients, seq, dedupe, pc, session, queue, writer, wire,
                  out, lastIn, nrecv, invoked, tick, now >>

-----------------------------------------------------------------------------
(* Bounds of the model *)

\* connections opened during a run of the gateway
MaxConns == 2
\* inbound messages the gateway is delivered besides the connect requests
MaxServe == 2
\* ... of them, those a connection delivers when peers send any frame of the
\* wide alphabet (ConnSpec)
MaxRecv == 1
\* protocol numbers a peer may advertise range over 0..MaxProto
MaxProto == 2
\* longest scope list a caller of authorize_method presents
MaxScopes == 2
\* ticks the timer fires during a run of the gateway
MaxFires == 2
\* ... of them, those fired while peers send requests as well (Spec, PeerSpec)
MaxTicks == 1
\* distinct idempotency keys callers present
MaxKeys == 3
\* tasks that call next_seq or check_and_insert at the same time
MaxTasks == 2
\* calls those tasks make during a run
MaxCalls == 4
\* the clock runs from 0 to MaxTime
MaxTime == 5
\* handlers registered with the hook registry
MaxHandlers == 3
\* the values a handler's ModifyPayload carries range over 1..MaxValue
MaxValue == 2
\* texts handed to chunk_response have up to MaxText chars
MaxText == 4
\* ... and max_len ranges over 1..MaxChunk
MaxChunk == 3
\* DEDUPE_TTL_MS and DEDUPE_MAX_ENTRIES of moltis_protocol, scaled down to
\* clock steps and to fewer entries than there are keys
DEDUPE_TTL_MS == 2
DEDUPE_MAX_ENTRIES == 2

-----------------------------------------------------------------------------
(* Protocol constants and frame constructors (crate moltis_protocol) *)

PROTOCOL_VERSION == 1

INVALID_REQUEST == "INVALID_REQUEST"

ADMIN == "operator.admin"
READ == "operator.read"
WRITE == "operator.write"
APPROVALS == "operator.approvals"
PAIRING == "operator.pairing"

\* Option<T>
None == [some |-> FALSE]
Some(v) == [some |-> TRUE, v |-> v]

\* ErrorShape::new(code, message): no data attached
ErrorShape(code, message) == [code |-> code, message |-> message, data |-> "none"]

ResponseOk(id, payload) ==
    [type |-> "response", id |-> id, ok |-> TRUE, result |-> payload]

ResponseErr(id, err) ==
    [type |-> "response", id |-> id, ok |-> FALSE, error |-> err]

EventFrame(name, data, s) ==
    [type |-> "event", name |-> name, data |-> data, seq |-> s]

-----------------------------------------------------------------------------
(* Scope authorization (methods.rs) *)

NODE_METHODS ==
    << "node.invoke.result", "node.event", "skills.bins" >>

READ_METHODS ==
    << "health", "logs.tail", "channels.status", "status", "usage.status",
       "usage.cost", "tts.status", "tts.providers", "models.list",
       "agents.list", "agent.identity.get", "skills.status",
       "voicewake.get", "sessions.list", "sessions.preview", "cron.list",
       "cron.status", "cron.runs", "system-presence", "last-heartbeat",
       "node.list", "node.describe", "chat.history" >>

WRITE_METHODS ==
    << "send", "agent", "agent.wait", "wake", "talk.mode", "tts.enable",
       "tts.disable", "tts.convert", "tts.setProvider", "voicewake.set",
       "node.invoke", "chat.send", "chat.abort", "browser.request" >>

APPROVAL_METHODS ==
    << "exec.approval.request", "exec.approval.resolve" >>

PAIRING_METHODS ==
    << "node.pair.request", "node.pair.list", "node.pair.approve",
       "node.pair.reject", "node.pair.verify", "device.pair.list",
       "device.pair.approve", "device.pair.reject", "device.token.rotate",
       "device.token.revoke", "node.rename" >>

is_in(method, list) == \E i \in 1..Len(list) : list[i] = method

has(scopes, scope) == \E i \in 1..Len(scopes) : scopes[i] = scope

UnauthorizedRole(role) ==
    Some(ErrorShape(INVALID_REQUEST, "unauthorized role: " \o role))

MissingScope(scope) ==
    Some(ErrorShape(INVALID_REQUEST, "missing scope: " \o scope))

\* mutant: the admin shortcut is taken before the role checks
authorize_method_admin_first(method, role, scopes) ==
    IF has(scopes, ADMIN) THEN None
    ELSE IF is_in(method, NODE_METHODS)
    THEN IF role = "node" THEN None ELSE UnauthorizedRole(role)
    ELSE IF role = "node" THEN UnauthorizedRole(role)
    ELSE IF role # "operator" THEN UnauthorizedRole(role)
    ELSE IF is_in(method, APPROVAL_METHODS) /\ ~has(scopes, APPROVALS)
    THEN MissingScope(APPROVALS)
    ELSE IF is_in(method, PAIRING_METHODS) /\ ~has(scopes, PAIRING)
    THEN MissingScope(PAIRING)
    ELSE IF is_in(method, READ_METHODS) /\ ~(has(scopes, READ) \/ has(scopes, WRITE))
    THEN MissingScope(READ)
    ELSE IF is_in(method, WRITE_METHODS) /\ ~has(scopes, WRITE)
    THEN MissingScope(WRITE)
    ELSE IF \/ is_in(method, APPROVAL_METHODS)
            \/ is_in(method, PAIRING_METHODS)
            \/ is_in(method, READ_METHODS)
            \/ is_in(method, WRITE_METHODS)
    THEN None
    ELSE MissingScope(ADMIN)

\* mutant: a write-class denial names the read scope
authorize_method_wrong_name(method, role, scopes) ==
    IF is_in(method, NODE_METHODS)
    THEN IF role = "node" THEN None ELSE UnauthorizedRole(role)
    ELSE IF role = "node" THEN UnauthorizedRole(role)
    ELSE IF role # "operator" THEN UnauthorizedRole(role)
    ELSE IF has(scopes, ADMIN) THEN None
    ELSE IF is_in(method, APPROVAL_METHODS) /\ ~has(scopes, APPROVALS)
    THEN MissingScope(APPROVALS)
    ELSE IF is_in(method, PAIRING_METHODS) /\ ~has(scopes, PAIRING)
    THEN MissingScope(PAIRING)
    ELSE IF is_in(method, READ_METHODS) /\ ~(has(scopes, READ) \/ has(scopes, WRITE))
    THEN MissingScope(READ)
    ELSE IF is_in(method, WRITE_METHODS) /\ ~has(scopes, WRITE)
    THEN MissingScope(READ)
    ELSE IF \/ is_in(method, APPROVAL_METHODS)
            \/ is_in(method, PAIRING_METHODS)
            \/ is_in(method, READ_METHODS)
            \/ is_in(method, WRITE_METHODS)
    THEN None
    ELSE MissingScope(ADMIN)

\* Option<ErrorShape>: None when the call is authorized
authorize_method(method, role, scopes) ==
    IF is_in(method, NODE_METHODS)
    THEN IF role = "node" THEN None ELSE UnauthorizedRole(role)
    ELSE IF role = "node" THEN UnauthorizedRole(role)
    ELSE IF role # "operator" THEN UnauthorizedRole(role)
    ELSE IF has(scopes, ADMIN) THEN None
    ELSE IF is_in(method, APPROVAL_METHODS) /\ ~has(scopes, APPROVALS)
    THEN MissingScope(APPROVALS)
    ELSE IF is_in(method, PAIRING_METHODS) /\ ~has(scopes, PAIRING)
    THEN MissingScope(PAIRING)
    ELSE IF is_in(method, READ_METHODS) /\ ~(has(scopes, READ) \/ has(scopes, WRITE))
    THEN MissingScope(READ)
    ELSE IF is_in(method, WRITE_METHODS) /\ ~has(scopes, WRITE)
    THEN MissingScope(WRITE)
    ELSE IF \/ is_in(method, APPROVAL_METHODS)
            \/ is_in(method, PAIRING_METHODS)
            \/ is_in(method, READ_METHODS)
            \/ is_in(method, WRITE_METHODS)
    THEN None
    ELSE MissingScope(ADMIN)

-----------------------------------------------------------------------------
(* Method registry (methods.rs) *)

stub_methods ==
    << "channels.status", "channels.logout", "agent", "agent.wait",
       "agent.identity.get", "send", "wake", "sessions.list",
       "sessions.preview", "sessions.resolve", "sessions.patch",
       "sessions.reset", "sessions.delete", "sessions.compact",
       "config.get", "config.set", "config.apply", "config.patch",
       "config.schema", "cron.list", "cron.status", "cron.add",
       "cron.update", "cron.remove", "cron.run", "cron.runs", "models.list",
       "agents.list", "skills.status", "skills.bins", "skills.install",
       "skills.update", "node.list", "node.describe", "node.invoke",
       "node.invoke.result", "node.event", "node.pair.request",
       "node.pair.list", "node.pair.approve", "node.pair.reject",
       "node.pair.verify", "node.rename", "device.pair.list",
       "device.pair.approve", "device.pair.reject", "device.token.rotate",
       "device.token.revoke", "exec.approvals.get", "exec.approvals.set",
       "exec.approvals.node.get", "exec.approvals.node.set",
       "exec.approval.request", "exec.approval.resolve", "logs.tail",
       "chat.history", "chat.send", "chat.abort", "chat.inject",
       "talk.mode", "tts.status", "tts.providers", "tts.enable",
       "tts.disable", "tts.convert", "tts.setProvider", "voicewake.get",
       "voicewake.set", "browser.request", "usage.status", "usage.cost",
       "update.run", "system-presence", "system-event", "last-heartbeat",
       "set-heartbeats", "wizard.start", "wizard.next", "wizard.cancel",
       "wizard.status", "web.login.start", "web.login.wait" >>

\* MethodRegistry::register: installs or replaces the handler of a method.
\* A registry is the sequence of its registrations' effect: handlers maps a
\* name to its handler, order lists the keys as the map happens to hold them.
register(reg, method, handler) ==
    [handlers |-> [m \in DOMAIN reg.handlers \cup {method} |->
                      IF m = method THEN handler ELSE reg.handlers[m]],
     order |-> IF method \in DOMAIN reg.handlers
               THEN reg.order ELSE Append(reg.order, method)]

EmptyRegistry == [handlers |-> << >>, order |-> << >>]

\* mutant: the stub of "send" is left out
register_stubs_without_send(reg) ==
    [handlers |-> [m \in (DOMAIN reg.handlers \cup
                           { stub_methods[i] : i \in 1..Len(stub_methods) }) \ {"send"} |->
                      IF is_in(m, stub_methods) THEN "stub" ELSE reg.handlers[m]],
     order |-> reg.order \o
               SelectSeq(stub_methods,
                         LAMBDA m : m \notin DOMAIN reg.handlers /\ m # "send")]

\* the loop over stub_methods in register_defaults: every listed name gets the
\* stub handler, replacing whatever was registered under it
register_stubs(reg) ==
    [handlers |-> [m \in DOMAIN reg.handlers \cup
                          { stub_methods[i] : i \in 1..Len(stub_methods) } |->
                      IF is_in(m, stub_methods) THEN "stub" ELSE reg.handlers[m]],
     order |-> reg.order \o
               SelectSeq(stub_methods, LAMBDA m : m \notin DOMAIN reg.handlers)]

\* MethodRegistry::register_defaults on the empty registry of new()
register_defaults ==
    register_stubs(
        register(register(EmptyRegistry, "health", "health"), "status", "status"))

\* MethodRegistry::new() followed by the registration of one handler supplied
\* by a collaborator, which may succeed or return its own ErrorShape.
Registry == register(register_defaults, "plugin.op", "custom")

\* byte-wise order of the method names (Ord for String), smallest first
ByteOrder ==
    << "agent", "agent.identity.get", "agent.wait", "agents.list",
       "browser.request", "channels.logout", "channels.status",
       "chat.abort", "chat.history", "chat.inject", "chat.send",
       "config.apply", "config.get", "config.patch", "config.schema",
       "config.set", "connect", "cron.add", "cron.list", "cron.remove",
       "cron.run", "cron.runs", "cron.status", "cron.update",
       "device.pair.approve", "device.pair.list", "device.pair.reject",
       "device.token.revoke", "device.token.rotate",
       "exec.approval.request", "exec.approval.resolve",
       "exec.approvals.get", "exec.approvals.node.get",
       "exec.approvals.node.set", "exec.approvals.set", "health",
       "last-heartbeat", "logs.tail", "models.list", "node.describe",
       "node.event", "node.invoke", "node.invoke.result", "node.list",
       "node.pair.approve", "node.pair.list", "node.pair.reject",
       "node.pair.request", "node.pair.verify", "node.rename",
       "nonexistent", "plugin.op", "send", "sessions.compact",
       "sessions.delete", "sessions.list", "sessions.patch",
       "sessions.preview", "sessions.reset", "sessions.resolve",
       "set-heartbeats", "skills.bins", "skills.install", "skills.status",
       "skills.update", "status", "system-event", "system-presence",
       "talk.mode", "tts.convert", "tts.disable", "tts.enable",
       "tts.providers", "tts.setProvider", "tts.status", "update.run",
       "usage.cost", "usage.status", "voicewake.get", "voicewake.set",
       "wake", "web.login.start", "web.login.wait", "wizard.cancel",
       "wizard.next", "wizard.start", "wizard.status" >>

StrRank == [s \in { ByteOrder[i] : i \in 1..Len(ByteOrder) } |->
               CHOOSE i \in 1..Len(ByteOrder) : ByteOrder[i] = s]

\* a < b for String
StrLess(a, b) == StrRank[a] < StrRank[b]

\* Vec<String>::sort on distinct names: the name with i-1 smaller names
\* comes to stand at position i
sort(names) ==
    LET elems == { names[k] : k \in 1..Len(names) }
    IN  [i \in 1..Len(names) |->
            CHOOSE x \in elems :
                Cardinality({ y \in elems : StrLess(y, x) }) = i - 1]

\* mutant: the keys are returned as the map holds them
method_names_unsorted(reg) == reg.order

\* MethodRegistry::method_names
method_names(reg) == sort(reg.order)

MethodNames == method_names(Registry)

EventNames ==
    << "tick", "shutdown", "agent", "chat", "presence", "health",
       "exec.approval.requested", "exec.approval.resolved",
       "device.pair.requested", "device.pair.resolved",
       "node.pair.requested", "node.pair.resolved", "node.invoke.request" >>

-----------------------------------------------------------------------------
(* Inputs *)

Conns == 1..MaxConns

SeqsUpTo(S, n) == UNION { [1..k -> S] : k \in 0..n }

ScopeNames == {ADMIN, READ, WRITE, APPROVALS, PAIRING, "other"}

ScopeLists == SeqsUpTo(ScopeNames, MaxScopes)

Roles == {"operator", "node", "guest"}

\* every method name the registry or the classification lists know, plus
\* "connect", "nonexistent" and "plugin.op"
Methods == { ByteOrder[i] : i \in 1..Len(ByteOrder) }

NoCall == [op |-> "none"]

\* Result<T, E>
Ok(v) == [ok |-> TRUE, value |-> v]
Err(e) == [ok |-> FALSE, err |-> e]

\* messages the inbound half of the socket yields
Other == [kind |-> "other"]          \* Binary, Ping or Pong
Close == [kind |-> "close"]          \* Message::Close
ReadError == [kind |-> "error"]      \* Some(Err(_))
EndOfStream == [kind |-> "end"]      \* None
TimerFired == [kind |-> "timeout"]   \* the handshake timer won the race
StreamEnded == [kind |-> "ended"]    \* history: Close, an error or the end was read
NoInput == [kind |-> "none"]

Garbage == [json |-> "garbage"]      \* text that is no GatewayFrame
Json(frame) == [json |-> "frame", frame |-> frame]
Text(body) == [kind |-> "text", body |-> body]

ParamsNull == [shape |-> "null"]     \* the request carries no params
ParamsBad == [shape |-> "bad"]       \* params that are no ConnectParams
ConnectParams(role, scopes, min, max) ==
    [shape |-> "connect", role |-> role, scopes |-> scopes,
     min_protocol |-> min, max_protocol |-> max]

Request(id, method, params) ==
    [type |-> "request", id |-> id, method |-> method, params |-> params]

ReqIds == {"1", "2"}

ConnectRoles == {None, Some("operator"), Some("node"), Some("guest")}

ConnectScopes == {None, Some(<< READ >>), Some(<< ADMIN >>)}

ConnectParamsSet ==
    { ConnectParams(r, s, lo, hi) :
        r \in ConnectRoles, s \in ConnectScopes,
        lo \in 0..MaxProto, hi \in 0..MaxProto }

\* frames a peer sends that are no requests
PeerNonRequests == { EventFrame("presence", [from |-> "peer"], 0) }

\* text frames a peer may send first
HandshakeTexts ==
    { Text(Garbage) }
    \cup { Text(Json(f)) : f \in PeerNonRequests }
    \cup { Text(Json(Request(id, m, p))) :
             id \in ReqIds, m \in {"connect", "health"},
             p \in ConnectParamsSet \cup {ParamsNull, ParamsBad} }

ServeMethods == {"health", "send", "node.event", "plugin.op", "nonexistent"}

ServeRequests == { Request(id, m, ParamsNull) : id \in ReqIds, m \in ServeMethods }

-----------------------------------------------------------------------------
(* Frame decoding (crate moltis_protocol) *)

\* serde_json::from_str::<GatewayFrame>
decode(body) == IF body.json = "frame" THEN Ok(body.frame) ELSE Err("parse")

\* serde_json::from_value::<ConnectParams>
parse_connect_params(params) ==
    IF params.shape = "connect" THEN Ok(params) ELSE Err("parse")

-----------------------------------------------------------------------------
(* Connected clients and the registry (state.rs) *)

Version == "0.1.0"
Hostname == "host"

ConnectedClient(conn_id, connect_params) ==
    [conn_id |-> conn_id, connect_params |-> connect_params]

\* ConnectedClient::role
role(client) ==
    IF client.connect_params.role.some
    THEN client.connect_params.role.v ELSE "operator"

\* ConnectedClient::scopes
scopes(client) ==
    IF client.connect_params.scopes.some
    THEN client.connect_params.scopes.v ELSE << >>

\* ConnectedClient::has_scope: some scope of the client is ADMIN or is scope
has_scope(client, scope) ==
    \E i \in 1..Len(scopes(client)) :
        scopes(client)[i] = ADMIN \/ scopes(client)[i] = scope

\* GatewayState::register_client: HashMap::insert under the write lock
register_client(reg, client) ==
    [id \in DOMAIN reg \cup {client.conn_id} |->
        IF id = client.conn_id THEN client ELSE reg[id]]

\* mutant: the entry is looked up but left in the map
remove_client_keep(reg, conn_id) == reg

\* GatewayState::remove_client
remove_client(reg, conn_id) ==
    [id \in DOMAIN reg \ {conn_id} |-> reg[id]]

\* mutant: the count leaves the caller out
client_count_others(reg) ==
    IF DOMAIN reg = {} THEN 0 ELSE Cardinality(DOMAIN reg) - 1

\* GatewayState::client_count
client_count(reg) == Cardinality(DOMAIN reg)

\* mutant: the counter is read and not advanced
next_seq_stale(s) == IF s = 0 THEN 1 ELSE s

\* GatewayState::next_seq: the value returned; the counter takes it too
next_seq(s) == s + 1

-----------------------------------------------------------------------------
(* The idempotency cache (state.rs) *)

\* the keys callers present
Keys == { "k" \o ToString(i) : i \in 1..MaxKeys }

\* DedupeCache::new: no entries
NewDedupeCache == << >>

\* DedupeCache::evict_expired at time t: the entries inserted after the
\* cutoff t - ttl are retained
evict_expired(entries, t) ==
    LET cutoff == t - DEDUPE_TTL_MS
    IN  [k \in { j \in DOMAIN entries : entries[j] > cutoff } |-> entries[k]]

\* mutant: the entry inserted last is taken for the oldest
oldest_keys_newest(entries) ==
    { k \in DOMAIN entries : \A j \in DOMAIN entries : entries[k] >= entries[j] }

\* the keys min_by_key may return: an entry no other entry was inserted
\* before; which of several the map's iteration order decides
oldest_keys(entries) ==
    { k \in DOMAIN entries : \A j \in DOMAIN entries : entries[k] <= entries[j] }

\* HashMap::insert
insert(entries, key, t) ==
    [k \in DOMAIN entries \cup {key} |-> IF k = key THEN t ELSE entries[k]]

\* mutant: a duplicate refreshes the timestamp of its entry
check_and_insert_refresh(entries, key, t) ==
    LET live == evict_expired(entries, t)
    IN  IF key \in DOMAIN live
        THEN { [entries |-> insert(live, key, t), dup |-> TRUE] }
        ELSE IF Cardinality(DOMAIN live) >= DEDUPE_MAX_ENTRIES
        THEN { [entries |-> insert([k \in DOMAIN live \ {old} |-> live[k]], key, t),
                dup |-> FALSE] : old \in oldest_keys(live) }
        ELSE { [entries |-> insert(live, key, t), dup |-> FALSE] }

\* mutant: a full cache takes the new key without evicting an entry
check_and_insert_no_evict(entries, key, t) ==
    LET live == evict_expired(entries, t)
    IN  IF key \in DOMAIN live
        THEN { [entries |-> live, dup |-> TRUE] }
        ELSE { [entries |-> insert(live, key, t), dup |-> FALSE] }

\* mutant: the key is inserted without looking for it
check_and_insert_blind(entries, key, t) ==
    LET live == evict_expired(entries, t)
        kept == [k \in DOMAIN live \ {key} |-> live[k]]
    IN  IF Cardinality(DOMAIN kept) >= DEDUPE_MAX_ENTRIES
        THEN { [entries |-> insert([k \in DOMAIN kept \ {old} |-> kept[k]], key, t),
                dup |-> FALSE] : old \in oldest_keys(kept) }
        ELSE { [entries |-> insert(kept, key, t), dup |-> FALSE] }

\* DedupeCache::check_and_insert at time t: the possible outcomes, each the
\* entries left in the cache and the value returned
check_and_insert(entries, key, t) ==
    LET live == evict_expired(entries, t)
    IN  IF key \in DOMAIN live
        THEN { [entries |-> live, dup |-> TRUE] }
        ELSE IF Cardinality(DOMAIN live) >= DEDUPE_MAX_ENTRIES
        THEN { [entries |-> insert([k \in DOMAIN live \ {old} |-> live[k]], key, t),
                dup |-> FALSE] : old \in oldest_keys(live) }
        ELSE { [entries |-> insert(live, key, t), dup |-> FALSE] }

-----------------------------------------------------------------------------
(* Dispatch (methods.rs) *)

MethodContext(request_id, method, conn_id, client_role, client_scopes) ==
    [request_id |-> request_id, method |-> method, client_conn_id |-> conn_id,
     client_role |-> client_role, client_scopes |-> client_scopes]

\* what a collaborator's handler may return
CustomResults ==
    { Ok([plugin |-> "done"]),
      Err([code |-> "NOT_FOUND", message |-> "no such thing", data |-> "detail"]) }

\* the results the handler registered as `kind` can produce in state `reg`
HandlerResults(kind, reg) ==
    CASE kind = "health" ->
           { Ok([status |-> "ok", version |-> Version,
                 connections |-> client_count(reg)]) }
      [] kind = "status" ->
           { Ok([version |-> Version, hostname |-> Hostname,
                 connections |-> client_count(reg)]) }
      [] kind = "stub" -> { Ok([stub |-> TRUE]) }
      [] kind = "custom" -> CustomResults

NoResult == [ok |-> FALSE, err |-> "no handler ran"]

\* mutant: a handler's error is reported as a generic internal error
wrap_result_generic(request_id, res) ==
    IF res.ok THEN ResponseOk(request_id, res.value)
    ELSE ResponseErr(request_id, ErrorShape("INTERNAL_ERROR", "handler failed"))

\* the match on the handler's result
wrap_result(request_id, res) ==
    IF res.ok THEN ResponseOk(request_id, res.value)
    ELSE ResponseErr(request_id, res.err)

UnknownMethod(request_id, method) ==
    ResponseErr(request_id,
                ErrorShape(INVALID_REQUEST, "unknown method: " \o method))

\* mutant: the handler is looked up and called before the caller is authorized
dispatch_unauthorized(ctx, reg) ==
    IF ctx.method \notin DOMAIN Registry.handlers
    THEN { [frame |-> UnknownMethod(ctx.request_id, ctx.method), ran |-> FALSE, res |-> NoResult] }
    ELSE { [frame |-> wrap_result(ctx.request_id, res), ran |-> TRUE, res |-> res] :
             res \in HandlerResults(Registry.handlers[ctx.method], reg) }

\* mutant: the handler lookup precedes the authorization check
dispatch_lookup_first(ctx, reg) ==
    LET auth == authorize_method(ctx.method, ctx.client_role, ctx.client_scopes)
    IN  IF ctx.method \notin DOMAIN Registry.handlers
        THEN { [frame |-> UnknownMethod(ctx.request_id, ctx.method), ran |-> FALSE, res |-> NoResult] }
        ELSE IF auth.some
        THEN { [frame |-> ResponseErr(ctx.request_id, auth.v), ran |-> FALSE, res |-> NoResult] }
        ELSE { [frame |-> wrap_result(ctx.request_id, res), ran |-> TRUE, res |-> res] :
                 res \in HandlerResults(Registry.handlers[ctx.method], reg) }

\* MethodRegistry::dispatch: the possible outcomes, each the response frame
\* returned, whether a handler ran and what it returned
dispatch(ctx, reg) ==
    LET auth == authorize_method(ctx.method, ctx.client_role, ctx.client_scopes)
    IN  IF auth.some
        THEN { [frame |-> ResponseErr(ctx.request_id, auth.v), ran |-> FALSE, res |-> NoResult] }
        ELSE IF ctx.method \notin DOMAIN Registry.handlers
        THEN { [frame |-> UnknownMethod(ctx.request_id, ctx.method), ran |-> FALSE, res |-> NoResult] }
        ELSE { [frame |-> wrap_result(ctx.request_id, res), ran |-> TRUE, res |-> res] :
                 res \in HandlerResults(Registry.handlers[ctx.method], reg) }

-----------------------------------------------------------------------------
(* The connection lifecycle (ws.rs) *)

\* uuid::Uuid::new_v4(): a fresh identifier per connection
ConnId(c) == c

HelloOk(c) ==
    [type |-> "hello-ok",
     protocol |-> PROTOCOL_VERSION,
     server |-> [version |-> Version, commit |-> None,
                 host |-> Some(Hostname), conn_id |-> ConnId(c)],
     features |-> [methods |-> MethodNames, events |-> EventNames],
     snapshot |-> "{}", canvas_host_url |-> None, auth |-> None,
     policy |-> "default"]

ProtocolMismatch(params) ==
    params.min_protocol > PROTOCOL_VERSION \/ params.max_protocol < PROTOCOL_VERSION

\* the first text frame is a connect request whose params parse
IsConnect(msg) ==
    /\ msg.kind = "text"
    /\ decode(msg.body).ok
    /\ decode(msg.body).value.type = "request"
    /\ decode(msg.body).value.method = "connect"
    /\ parse_connect_params(decode(msg.body).value.params).ok

\* wait_for_connect: message msg makes it return Err
ConnectFails(msg) ==
    \/ msg.kind \in {"close", "error", "end"}
    \/ /\ msg.kind = "text"
       /\ ~IsConnect(msg)

\* client_tx.send(frame): the frame is queued while the receiver lives
Send(c, frame) ==
    /\ out' = [out EXCEPT ![c] = Append(@, frame)]
    /\ queue' = [queue EXCEPT ![c] =
                    IF writer[c] = "running" THEN Append(@, frame) ELSE @]

\* drop(client_tx); write_handle.abort(): a loop that is still running is
\* cancelled and its receiver dropped with whatever it still holds
DropAndAbort(c) ==
    /\ writer' = [writer EXCEPT ![c] = IF @ = "running" THEN "aborted" ELSE @]
    /\ queue' = [queue EXCEPT ![c] = << >>]

\* ws_upgrade_handler hands the socket to handle_connection: the channel is
\* created and the write loop spawned
Accept(c) ==
    /\ pc[c] = "idle"
    /\ pc' = [pc EXCEPT ![c] = "handshake"]
    /\ writer' = [writer EXCEPT ![c] = "running"]
    /\ UNCHANGED << clients, seq, dedupe, session, queue, wire, out, lastIn, nrecv, invoked, call, tick, now >>

\* mutant: the write loop takes the frame enqueued last
WriteFrame_lifo(c) ==
    /\ writer[c] = "running"
    /\ queue[c] # << >>
    /\ wire' = [wire EXCEPT ![c] = Append(@, queue[c][Len(queue[c])])]
    /\ queue' = [queue EXCEPT ![c] = SubSeq(@, 1, Len(@) - 1)]
    /\ UNCHANGED << clients, seq, dedupe, pc, session, writer, out, lastIn, nrecv, invoked, call, tick, now >>

\* write loop: one frame taken from the channel and written to the socket
WriteFrame(c) ==
    /\ writer[c] = "running"
    /\ queue[c] # << >>
    /\ wire' = [wire EXCEPT ![c] = Append(@, Head(queue[c]))]
    /\ queue' = [queue EXCEPT ![c] = Tail(@)]
    /\ UNCHANGED << clients, seq, dedupe, pc, session, writer, out, lastIn, nrecv, invoked, call, tick, now >>

\* write loop: ws_tx.send fails, the loop breaks and drops its receiver
WriteError(c) ==
    /\ writer[c] = "running"
    /\ queue[c] # << >>
    /\ writer' = [writer EXCEPT ![c] = "stopped"]
    /\ queue' = [queue EXCEPT ![c] = << >>]
    /\ UNCHANGED << clients, seq, dedupe, pc, session, wire, out, lastIn, nrecv, invoked, call, tick, now >>

\* wait_for_connect skips a binary, ping or pong frame
HandshakeSkip(c) ==
    /\ pc[c] = "handshake"
    /\ nrecv[c] < MaxServe
    /\ nrecv' = [nrecv EXCEPT ![c] = @ + 1]
    /\ lastIn' = [lastIn EXCEPT ![c] = Other]
    /\ UNCHANGED << clients, seq, dedupe, pc, session, queue, writer, wire,
                    out, invoked, call, tick, now >>

\* mutant: a failed handshake is answered when the frame carried a request id
HandshakeFail_answering(c, msg) ==
    /\ pc[c] = "handshake"
    /\ ConnectFails(msg)
    /\ lastIn' = [lastIn EXCEPT ![c] = IF msg.kind = "text" THEN msg ELSE StreamEnded]
    /\ out' = [out EXCEPT ![c] =
                 IF msg.kind = "text" /\ decode(msg.body).ok
                    /\ decode(msg.body).value.type = "request"
                 THEN Append(@, ResponseErr(decode(msg.body).value.id,
                        ErrorShape(INVALID_REQUEST, "first message must be 'connect'")))
                 ELSE @]
    /\ writer' = [writer EXCEPT ![c] = "aborted"]
    /\ queue' = [queue EXCEPT ![c] = << >>]
    /\ pc' = [pc EXCEPT ![c] = "closed"]
    /\ UNCHANGED << clients, seq, dedupe, session, wire, nrecv, invoked, call, tick, now >>

\* the Ok(Err(e)) arm: wait_for_connect failed on msg
HandshakeFail(c, msg) ==
    /\ pc[c] = "handshake"
    /\ ConnectFails(msg)
    /\ lastIn' = [lastIn EXCEPT ![c] = IF msg.kind = "text" THEN msg ELSE StreamEnded]
    /\ DropAndAbort(c)
    /\ pc' = [pc EXCEPT ![c] = "closed"]
    /\ UNCHANGED << clients, seq, dedupe, session, wire, out, nrecv, invoked,
                    call, tick, now >>

\* the Err(_) arm: HANDSHAKE_TIMEOUT_MS passed before wait_for_connect returned
HandshakeTimeout(c) ==
    /\ pc[c] = "handshake"
    /\ lastIn' = [lastIn EXCEPT ![c] = TimerFired]
    /\ DropAndAbort(c)
    /\ pc' = [pc EXCEPT ![c] = "closed"]
    /\ UNCHANGED << clients, seq, dedupe, session, wire, out, nrecv,
                    invoked, call, tick, now >>

\* the Ok(Ok(..)) arm with a protocol range that excludes PROTOCOL_VERSION:
\* the error response is handed to the channel
HandshakeMismatch(c, msg) ==
    /\ pc[c] = "handshake"
    /\ IsConnect(msg)
    /\ LET req == decode(msg.body).value
           params == parse_connect_params(req.params).value
       IN  /\ ProtocolMismatch(params)
           /\ Send(c, ResponseErr(req.id,
                    ErrorShape(INVALID_REQUEST,
                        "protocol mismatch: server=" \o ToString(PROTOCOL_VERSION)
                        \o ", client=" \o ToString(params.min_protocol)
                        \o "-" \o ToString(params.max_protocol))))
    /\ lastIn' = [lastIn EXCEPT ![c] = msg]
    /\ pc' = [pc EXCEPT ![c] = "reject"]
    /\ UNCHANGED << clients, seq, dedupe, session, writer, wire, nrecv, invoked,
                    call, tick, now >>

\* ... then the sender is dropped, the write loop aborted and the task returns
RejectClose(c) ==
    /\ pc[c] = "reject"
    /\ DropAndAbort(c)
    /\ pc' = [pc EXCEPT ![c] = "closed"]
    /\ UNCHANGED << clients, seq, dedupe, session, wire, out, lastIn,
                    nrecv, invoked, call, tick, now >>

\* mutant: the client is registered on its connect request, before any
\* hello-ok is enqueued
HandshakeOk_registered(c, msg) ==
    /\ pc[c] = "handshake"
    /\ IsConnect(msg)
    /\ LET req == decode(msg.body).value
           params == parse_connect_params(req.params).value
       IN  /\ ~ProtocolMismatch(params)
           /\ clients' = register_client(clients, ConnectedClient(ConnId(c), params))
           /\ session' = [session EXCEPT ![c] = [connect_params |-> params]]
    /\ lastIn' = [lastIn EXCEPT ![c] = msg]
    /\ pc' = [pc EXCEPT ![c] = "register"]
    /\ UNCHANGED << seq, dedupe, queue, out, writer, wire, nrecv, invoked, call, tick, now >>

\* the Ok(Ok(..)) arm with a matching protocol range: hello-ok is sent
HandshakeOk(c, msg) ==
    /\ pc[c] = "handshake"
    /\ IsConnect(msg)
    /\ LET req == decode(msg.body).value
           params == parse_connect_params(req.params).value
       IN  /\ ~ProtocolMismatch(params)
           /\ Send(c, ResponseOk(req.id, HelloOk(c)))
           /\ session' = [session EXCEPT ![c] = [connect_params |-> params]]
    /\ lastIn' = [lastIn EXCEPT ![c] = msg]
    /\ pc' = [pc EXCEPT ![c] = "register"]
    /\ UNCHANGED << clients, seq, dedupe, writer, wire, nrecv, invoked, call, tick, now >>

\* the client is built, role and scopes are taken from it, and it is registered
Register(c) ==
    /\ pc[c] = "register"
    /\ LET client == ConnectedClient(ConnId(c), session[c].connect_params)
       IN  /\ session' = [session EXCEPT ![c] =
                            [role |-> role(client), scopes |-> scopes(client)]]
           /\ clients' = register_client(clients, client)
    /\ pc' = [pc EXCEPT ![c] = "serve"]
    /\ UNCHANGED << seq, dedupe, queue, writer, wire, out, lastIn,
                    nrecv, invoked, call, tick, now >>

\* message loop: a binary, ping or pong frame is ignored
ServeSkip(c) ==
    /\ pc[c] = "serve"
    /\ nrecv[c] < MaxServe
    /\ nrecv' = [nrecv EXCEPT ![c] = @ + 1]
    /\ lastIn' = [lastIn EXCEPT ![c] = Other]
    /\ UNCHANGED << clients, seq, dedupe, pc, session, queue, writer, wire,
                    out, invoked, call, tick, now >>

\* message loop: a text frame that does not decode yields an "error" event
ServeInvalid(c, msg) ==
    /\ pc[c] = "serve"
    /\ nrecv[c] < MaxServe
    /\ msg.kind = "text"
    /\ ~decode(msg.body).ok
    /\ seq' = next_seq(seq)
    /\ Send(c, EventFrame("error", [message |-> "invalid frame"], next_seq(seq)))
    /\ nrecv' = [nrecv EXCEPT ![c] = @ + 1]
    /\ lastIn' = [lastIn EXCEPT ![c] = msg]
    /\ UNCHANGED << clients, dedupe, pc, session, writer, wire, invoked, call, tick, now >>

\* mutant: a "connect" request of a registered peer replaces its role and scopes
ServeRequest_reconnect(c, msg) ==
    /\ pc[c] = "serve"
    /\ nrecv[c] < MaxServe
    /\ msg.kind = "text"
    /\ decode(msg.body).ok
    /\ decode(msg.body).value.type = "request"
    /\ LET req == decode(msg.body).value
           ctx == MethodContext(req.id, req.method, ConnId(c),
                                session[c].role, session[c].scopes)
       IN  /\ \E outcome \in dispatch(ctx, clients) :
                 /\ Send(c, outcome.frame)
                 /\ invoked' = [invoked EXCEPT ![c] =
                                   IF outcome.ran THEN Append(@, outcome.res) ELSE @]
           /\ session' = [session EXCEPT ![c] =
                 IF req.method = "connect" /\ parse_connect_params(req.params).ok
                 THEN [role |-> role(ConnectedClient(ConnId(c), req.params)),
                       scopes |-> scopes(ConnectedClient(ConnId(c), req.params))]
                 ELSE @]
    /\ nrecv' = [nrecv EXCEPT ![c] = @ + 1]
    /\ lastIn' = [lastIn EXCEPT ![c] = msg]
    /\ UNCHANGED << clients, seq, dedupe, pc, writer, wire, call, tick, now >>

\* message loop: a request is dispatched and its response sent
ServeRequest(c, msg) ==
    /\ pc[c] = "serve"
    /\ nrecv[c] < MaxServe
    /\ msg.kind = "text"
    /\ decode(msg.body).ok
    /\ decode(msg.body).value.type = "request"
    /\ LET req == decode(msg.body).value
           ctx == MethodContext(req.id, req.method, ConnId(c),
                                session[c].role, session[c].scopes)
       IN  \E outcome \in dispatch(ctx, clients) :
              /\ Send(c, outcome.frame)
              /\ invoked' = [invoked EXCEPT ![c] =
                                IF outcome.ran THEN Append(@, outcome.res) ELSE @]
    /\ nrecv' = [nrecv EXCEPT ![c] = @ + 1]
    /\ lastIn' = [lastIn EXCEPT ![c] = msg]
    /\ UNCHANGED << clients, seq, dedupe, pc, session, writer, wire, call, tick, now >>

\* message loop: a response or event frame from the peer is ignored
ServeNonRequest(c, msg) ==
    /\ pc[c] = "serve"
    /\ nrecv[c] < MaxServe
    /\ msg.kind = "text"
    /\ decode(msg.body).ok
    /\ decode(msg.body).value.type # "request"
    /\ nrecv' = [nrecv EXCEPT ![c] = @ + 1]
    /\ lastIn' = [lastIn EXCEPT ![c] = msg]
    /\ UNCHANGED << clients, seq, dedupe, pc, session, queue, writer, wire,
                    out, invoked, call, tick, now >>

\* mutant: the loop goes on waiting after the stream has ended
ServeBreak_waiting(c, msg) ==
    /\ pc[c] = "serve"
    /\ msg.kind \in {"close", "error", "end"}
    /\ lastIn' = [lastIn EXCEPT ![c] = StreamEnded]
    /\ UNCHANGED << clients, seq, dedupe, pc, session, queue, writer, wire, out,
                    nrecv, invoked, call, tick, now >>

\* message loop: a Close frame, a read error or the end of the stream
ServeBreak(c, msg) ==
    /\ pc[c] = "serve"
    /\ msg.kind \in {"close", "error", "end"}
    /\ lastIn' = [lastIn EXCEPT ![c] = StreamEnded]
    /\ pc' = [pc EXCEPT ![c] = "cleanup"]
    /\ UNCHANGED << clients, seq, dedupe, session, queue, writer, wire, out,
                    nrecv, invoked, call, tick, now >>

\* cleanup: the client is removed, the sender dropped, the write loop aborted
Cleanup(c) ==
    /\ pc[c] = "cleanup"
    /\ clients' = remove_client(clients, ConnId(c))
    /\ DropAndAbort(c)
    /\ pc' = [pc EXCEPT ![c] = "closed"]
    /\ UNCHANGED << seq, dedupe, session, wire, out, lastIn, nrecv,
                    invoked, call, tick, now >>

-----------------------------------------------------------------------------
(* One connection served from accept to close *)

NoSession == [role |-> "", scopes |-> << >>]

\* the tick task sleeps in interval.tick()
TickIdle == [pc |-> "wait", fired |-> 0]

GatewayInit ==
    /\ clients = << >>
    /\ seq = 0
    /\ dedupe = NewDedupeCache
    /\ pc = [c \in Conns |-> "idle"]
    /\ session = [c \in Conns |-> NoSession]
    /\ queue = [c \in Conns |-> << >>]
    /\ writer = [c \in Conns |-> "unspawned"]
    /\ wire = [c \in Conns |-> << >>]
    /\ out = [c \in Conns |-> << >>]
    /\ lastIn = [c \in Conns |-> NoInput]
    /\ nrecv = [c \in Conns |-> 0]
    /\ invoked = [c \in Conns |-> << >>]
    /\ tick = TickIdle
    /\ now = 0

ConnInit == GatewayInit /\ call = NoCall

StreamEnds == {Close, ReadError, EndOfStream}

\* the inbound messages tried in the position the task is in
Inbound(c) ==
    CASE pc[c] = "handshake" -> HandshakeTexts \cup StreamEnds
      [] pc[c] = "serve" ->
           StreamEnds
           \cup IF nrecv[c] < MaxRecv
                THEN { Text(Garbage) }
                     \cup { Text(Json(r)) : r \in ServeRequests }
                     \cup { Text(Json(f)) : f \in PeerNonRequests }
                ELSE {}
      [] OTHER -> {}

ConnNext ==
    \E c \in {1} :
        \/ Accept(c)
        \/ WriteFrame(c)
        \/ WriteError(c)
        \/ nrecv[c] < MaxRecv /\ HandshakeSkip(c)
        \/ \E msg \in Inbound(c) : HandshakeFail(c, msg)
        \/ HandshakeTimeout(c)
        \/ \E msg \in Inbound(c) : HandshakeMismatch(c, msg)
        \/ RejectClose(c)
        \/ \E msg \in Inbound(c) : HandshakeOk(c, msg)
        \/ Register(c)
        \/ nrecv[c] < MaxRecv /\ ServeSkip(c)
        \/ \E msg \in Inbound(c) : ServeInvalid(c, msg)
        \/ \E msg \in Inbound(c) : ServeRequest(c, msg)
        \/ \E msg \in Inbound(c) : ServeNonRequest(c, msg)
        \/ \E msg \in Inbound(c) : ServeBreak(c, msg)
        \/ Cleanup(c)

ConnSpec == ConnInit /\ [][ConnNext]_vars

-----------------------------------------------------------------------------
(* authorize_method applied to every method, role and scope list *)

AuthInit ==
    /\ GatewayInit
    /\ \E m \in Methods, r \in Roles, s \in ScopeLists :
          call = [op |-> "authorize_method", method |-> m, role |-> r,
                  scopes |-> s, done |-> FALSE, result |-> None]

AuthCall ==
    /\ call.op = "authorize_method"
    /\ ~call.done
    /\ call' = [call EXCEPT !.done = TRUE,
                  !.result = authorize_method(call.method, call.role, call.scopes)]
    /\ UNCHANGED gatewayVars

AuthSpec == AuthInit /\ [][AuthCall]_vars

-----------------------------------------------------------------------------
(* A handler that panics (methods.rs, ws.rs) *)

\* what is recorded for a handler that panicked instead of returning
Panicked == [ok |-> FALSE, panicked |-> TRUE]

\* message loop: the handler a collaborator registered panics inside
\* dispatch; the panic unwinds handle_connection, whose locals are dropped
\* while the registry keeps its clone of the sender
ServePanic(c, msg) ==
    /\ pc[c] = "serve"
    /\ nrecv[c] < MaxServe
    /\ msg.kind = "text"
    /\ decode(msg.body).ok
    /\ decode(msg.body).value.type = "request"
    /\ LET req == decode(msg.body).value
       IN  /\ ~authorize_method(req.method, session[c].role, session[c].scopes).some
           /\ req.method \in DOMAIN Registry.handlers
           /\ Registry.handlers[req.method] = "custom"
    /\ invoked' = [invoked EXCEPT ![c] = Append(@, Panicked)]
    /\ nrecv' = [nrecv EXCEPT ![c] = @ + 1]
    /\ lastIn' = [lastIn EXCEPT ![c] = msg]
    /\ pc' = [pc EXCEPT ![c] = "panicked"]
    /\ UNCHANGED << clients, seq, dedupe, session, queue, writer, wire, out,
                    call, tick, now >>

-----------------------------------------------------------------------------
(* The tick timer (server.rs) and the broadcast it calls *)

\* the connections whose conn_id the registry holds
Registered == { c \in Conns : ConnId(c) \in DOMAIN clients }

\* interval.tick() fires and broadcast_tick builds the "tick" event with the
\* connection count and a fresh seq
TickFire ==
    /\ tick.pc = "wait"
    /\ tick.fired < MaxFires
    /\ seq' = next_seq(seq)
    /\ tick' = [pc |-> "fanout", fired |-> tick.fired + 1,
                frame |-> EventFrame("tick",
                                     [connections |-> client_count(clients)],
                                     next_seq(seq))]
    /\ UNCHANGED << clients, dedupe, pc, session, queue, writer, wire, out,
                    lastIn, nrecv, invoked, call, now >>

\* broadcast_tick, holding the read lock of the registry, pushes the
\* serialized frame into the queue of every registered peer
TickFanout ==
    /\ tick.pc = "fanout"
    /\ out' = [c \in Conns |->
                 IF c \in Registered THEN Append(out[c], tick.frame) ELSE out[c]]
    /\ queue' = [c \in Conns |->
                   IF c \in Registered /\ writer[c] = "running"
                   THEN Append(queue[c], tick.frame) ELSE queue[c]]
    /\ tick' = [pc |-> "wait", fired |-> tick.fired]
    /\ UNCHANGED << clients, seq, dedupe, pc, session, writer, wire, lastIn,
                    nrecv, invoked, call, now >>

\* the timer fires one of its first n ticks
TickFireWithin(n) == tick.fired < n /\ TickFire

-----------------------------------------------------------------------------
(* The gateway: every connection task, the write loops and the tick timer *)

\* the connect requests peers send: the role or the scopes may be absent
PeerConnects ==
    { Text(Json(Request("1", "connect", ConnectParams(None, Some(<< ADMIN >>), 1, 1)))),
      Text(Json(Request("1", "connect", ConnectParams(Some("operator"), None, 0, 1)))),
      Text(Json(Request("1", "connect", ConnectParams(Some("operator"), None, 2, 2)))) }

\* the requests peers send once registered
PeerRequests ==
    { Request("2", "plugin.op", ParamsNull),
      Request("2", "connect", ConnectParams(Some("node"), Some(<< ADMIN >>), 1, 1)) }

\* the inbound messages tried in the position the task is in, a registered
\* connection delivering at most n of them
InboundUpTo(c, n) ==
    CASE pc[c] = "handshake" -> PeerConnects \cup { Text(Garbage), Close }
      [] pc[c] = "serve" ->
           { Close }
           \cup IF nrecv[c] < n
                THEN { Text(Garbage) }
                     \cup { Text(Json(r)) : r \in PeerRequests }
                     \cup { Text(Json(f)) : f \in PeerNonRequests }
                ELSE {}
      [] OTHER -> {}

\* connections are numbered in the order they are accepted
AcceptNext(c) ==
    /\ \A d \in Conns : d < c => pc[d] # "idle"
    /\ Accept(c)

Init == GatewayInit /\ call = NoCall

\* one step of the task serving connection c or of its write loop, the peer
\* delivering at most n messages once registered
ConnStepUpTo(c, n) ==
    \/ AcceptNext(c)
    \/ WriteFrame(c)
    \/ WriteError(c)
    \/ \E msg \in InboundUpTo(c, n) : HandshakeFail(c, msg)
    \/ HandshakeTimeout(c)
    \/ \E msg \in InboundUpTo(c, n) : HandshakeMismatch(c, msg)
    \/ RejectClose(c)
    \/ \E msg \in InboundUpTo(c, n) : HandshakeOk(c, msg)
    \/ Register(c)
    \/ \E msg \in InboundUpTo(c, n) : ServeInvalid(c, msg)
    \/ \E msg \in InboundUpTo(c, n) : ServeRequest(c, msg)
    \/ \E msg \in InboundUpTo(c, n) : ServePanic(c, msg)
    \/ \E msg \in InboundUpTo(c, n) : ServeBreak(c, msg)
    \/ Cleanup(c)

ConnStep(c) == ConnStepUpTo(c, MaxRecv)

Next ==
    \/ TickFireWithin(MaxTicks)
    \/ TickFanout
    \/ \E c \in Conns : ConnStep(c)

Spec == Init /\ [][Next]_vars

\* the gateway while a single peer connects
PeerNext ==
    \/ TickFireWithin(MaxTicks)
    \/ TickFanout
    \/ ConnStepUpTo(1, MaxServe)
    \/ HandshakeSkip(1)
    \/ ServeSkip(1)
    \/ \E msg \in InboundUpTo(1, MaxServe) : ServeNonRequest(1, msg)

PeerSpec == Init /\ [][PeerNext]_vars

\* the connect requests of peers that go on to ask for the gateway's health
HealthConnects ==
    { Text(Json(Request("1", "connect", ConnectParams(None, Some(<< ADMIN >>), 1, 1)))),
      Text(Json(Request("1", "connect", ConnectParams(Some("operator"), None, 0, 1)))),
      Text(Json(Request("1", "connect", ConnectParams(Some("operator"), Some(<< READ >>), 1, 1)))) }

\* the inbound messages of such a peer in the position its task is in
HealthInbound(c) ==
    CASE pc[c] = "handshake" -> HealthConnects
      [] pc[c] = "serve" ->
           { Close }
           \cup IF nrecv[c] < MaxRecv
                THEN { Text(Json(Request("3", "health", ParamsNull))) }
                ELSE {}
      [] OTHER -> {}

\* one step of the task serving such a peer
HealthStep(c) ==
    \/ AcceptNext(c)
    \/ \E msg \in HealthInbound(c) : HandshakeOk(c, msg)
    \/ Register(c)
    \/ \E msg \in HealthInbound(c) : ServeRequest(c, msg)
    \/ \E msg \in HealthInbound(c) : ServeBreak(c, msg)
    \/ Cleanup(c)

\* the gateway while its peers connect, ask for its health and leave
HealthNext == \E c \in Conns : HealthStep(c)

HealthSpec == Init /\ [][HealthNext]_vars

\* the inbound messages of a peer that listens for events
ListenerInbound(c) ==
    CASE pc[c] = "handshake" ->
           { Text(Json(Request("1", "connect", ConnectParams(None, Some(<< ADMIN >>), 1, 1)))) }
      [] pc[c] = "serve" ->
           { Close } \cup IF nrecv[c] < MaxRecv THEN { Text(Garbage) } ELSE {}
      [] OTHER -> {}

\* one step of the task serving such a peer
ListenerStep(c) ==
    \/ AcceptNext(c)
    \/ \E msg \in ListenerInbound(c) : HandshakeOk(c, msg)
    \/ Register(c)
    \/ \E msg \in ListenerInbound(c) : ServeInvalid(c, msg)
    \/ \E msg \in ListenerInbound(c) : ServeBreak(c, msg)
    \/ Cleanup(c)

\* the gateway while the timer ticks and peers come, listen and go
TickNext ==
    \/ TickFire
    \/ TickFanout
    \/ \E c \in Conns : ListenerStep(c)

\* the timer task is run whenever it can run: the interval fires and
\* broadcast_tick goes on to the fan-out
TickFairness == WF_vars(TickFire) /\ WF_vars(TickFanout)

TickSpec == Init /\ [][TickNext]_vars /\ TickFairness

\* a task that can run is run: the task serving a connection goes on from
\* one await to the next, and the timer task from one fire to its fan-out;
\* nothing makes a peer send or the transport take a frame
PeerFairness ==
    /\ WF_vars(Register(1))
    /\ WF_vars(RejectClose(1))
    /\ WF_vars(Cleanup(1))
    /\ WF_vars(TickFireWithin(MaxTicks))
    /\ WF_vars(TickFanout)

PeerFairSpec == PeerSpec /\ PeerFairness

-----------------------------------------------------------------------------
(* Calls of the idempotency cache *)

\* a caller holding the write lock of GatewayState.dedupe checks a key
CheckAndInsert(key) ==
    /\ \E o \in check_and_insert(dedupe, key, now) :
          /\ dedupe' = o.entries
          /\ call' = [op |-> "check_and_insert", key |-> key, at |-> now,
                      before |-> dedupe, dup |-> o.dup]
    /\ UNCHANGED << clients, seq, pc, session, queue, writer, wire, out,
                    lastIn, nrecv, invoked, tick, now >>

\* time passes between two calls
Elapse ==
    /\ now < MaxTime
    /\ now' = now + 1
    /\ UNCHANGED << clients, seq, dedupe, pc, session, queue, writer, wire,
                    out, lastIn, nrecv, invoked, call, tick >>

DedupeNext ==
    \/ Elapse
    \/ \E key \in Keys : CheckAndInsert(key)

DedupeSpec == Init /\ [][DedupeNext]_vars

-----------------------------------------------------------------------------
(* Calls of the registry *)

\* the connect parameters of the clients callers register
RegisterParams ==
    { ConnectParams(None, Some(<< ADMIN >>), 1, 1),
      ConnectParams(Some("operator"), None, 0, 1),
      ConnectParams(Some("node"), None, 1, 1) }

\* a caller registers a client under conn_id id
RegisterClient(id, params) ==
    /\ clients' = register_client(clients, ConnectedClient(id, params))
    /\ call' = [op |-> "register_client", before |-> clients,
                client |-> ConnectedClient(id, params)]
    /\ UNCHANGED << seq, dedupe, pc, session, queue, writer, wire, out,
                    lastIn, nrecv, invoked, tick, now >>

\* a caller removes the client registered under conn_id id
RemoveClient(id) ==
    /\ clients' = remove_client(clients, id)
    /\ call' = [op |-> "remove_client", before |-> clients, conn_id |-> id]
    /\ UNCHANGED << seq, dedupe, pc, session, queue, writer, wire, out,
                    lastIn, nrecv, invoked, tick, now >>

RegistryNext ==
    \/ \E id \in Conns, params \in RegisterParams : RegisterClient(id, params)
    \/ \E id \in Conns : RemoveClient(id)

RegistrySpec == Init /\ [][RegistryNext]_vars

-----------------------------------------------------------------------------
(* Concurrent calls of next_seq *)

Tasks == 1..MaxTasks

\* the calls made so far, in the order they were started
NoCalls == [op |-> "next_seq", log |-> << >>]

\* the calls that have returned
Returned(log) == { i \in 1..Len(log) : log[i].done }

\* task t enters next_seq: the counter it could read now and the calls that
\* have returned already are noted
StartNextSeq(t) ==
    /\ call.op = "next_seq"
    /\ Len(call.log) < MaxCalls
    /\ \A i \in 1..Len(call.log) : call.log[i].task = t => call.log[i].done
    /\ call' = [call EXCEPT !.log =
                   Append(@, [task |-> t, done |-> FALSE, seen |-> seq,
                              after |-> Returned(call.log), nth |-> 0, ret |-> 0])]
    /\ UNCHANGED << clients, seq, dedupe, pc, session, queue, writer, wire,
                    out, lastIn, nrecv, invoked, tick, now >>

\* mutant: the increment is a load and a later store of the value loaded + 1
FetchAdd_torn(i) ==
    /\ call.op = "next_seq"
    /\ i \in 1..Len(call.log)
    /\ ~call.log[i].done
    /\ seq' = call.log[i].seen + 1
    /\ call' = [call EXCEPT !.log[i] =
                   [@ EXCEPT !.done = TRUE,
                             !.nth = Cardinality(Returned(call.log)) + 1,
                             !.ret = call.log[i].seen + 1]]
    /\ UNCHANGED << clients, dedupe, pc, session, queue, writer, wire,
                    out, lastIn, nrecv, invoked, tick, now >>

\* seq.fetch_add(1, Relaxed) + 1 of the i-th call: one atomic
\* read-modify-write of the counter, whose new value the call returns
FetchAdd(i) ==
    /\ call.op = "next_seq"
    /\ i \in 1..Len(call.log)
    /\ ~call.log[i].done
    /\ seq' = next_seq(seq)
    /\ call' = [call EXCEPT !.log[i] =
                   [@ EXCEPT !.done = TRUE,
                             !.nth = Cardinality(Returned(call.log)) + 1,
                             !.ret = next_seq(seq)]]
    /\ UNCHANGED << clients, dedupe, pc, session, queue, writer, wire,
                    out, lastIn, nrecv, invoked, tick, now >>

SeqInit == GatewayInit /\ call = NoCalls

SeqNext ==
    \/ \E t \in Tasks : StartNextSeq(t)
    \/ \E i \in 1..MaxCalls : FetchAdd(i)

SeqSpec == SeqInit /\ [][SeqNext]_vars

-----------------------------------------------------------------------------
(* Concurrent calls of check_and_insert *)

\* no task holds the write lock of GatewayState.dedupe, none waits for it
NoRace ==
    [op |-> "race", lock |-> 0, key |-> [t \in Tasks |-> ""], log |-> << >>]

\* the tasks waiting for the write lock
Waiting == { t \in Tasks : call.key[t] # "" /\ call.lock # t }

\* task t is about to check key and asks for the write lock
WantLock(t, key) ==
    /\ call.op = "race"
    /\ call.key[t] = ""
    /\ Len(call.log) + Cardinality({ u \in Tasks : call.key[u] # "" }) < MaxCalls
    /\ call' = [call EXCEPT !.key[t] = key]
    /\ UNCHANGED << clients, seq, dedupe, pc, session, queue, writer, wire,
                    out, lastIn, nrecv, invoked, tick, now >>

\* dedupe.write().await: the lock is granted to one waiting task
AcquireLock(t) ==
    /\ call.op = "race"
    /\ t \in Waiting
    /\ call.lock = 0
    /\ call' = [call EXCEPT !.lock = t]
    /\ UNCHANGED << clients, seq, dedupe, pc, session, queue, writer, wire,
                    out, lastIn, nrecv, invoked, tick, now >>

\* the task holding the lock calls check_and_insert and drops the guard
CheckUnderLock(t) ==
    /\ call.op = "race"
    /\ call.lock = t
    /\ LET live == evict_expired(dedupe, now)
       IN  \E o \in check_and_insert(dedupe, call.key[t], now) :
              /\ dedupe' = o.entries
              /\ call' = [call EXCEPT
                            !.lock = 0,
                            !.key[t] = "",
                            !.log = Append(@, [task |-> t, key |-> call.key[t],
                                               at |-> now, dup |-> o.dup,
                                               held |-> call.key[t] \in DOMAIN live,
                                               waiting |-> Waiting,
                                               evicted |-> DOMAIN live \ DOMAIN o.entries])]
    /\ UNCHANGED << clients, seq, pc, session, queue, writer, wire,
                    out, lastIn, nrecv, invoked, tick, now >>

RaceInit == GatewayInit /\ call = NoRace

RaceNext ==
    \/ now <= DEDUPE_TTL_MS /\ Elapse
    \/ \E t \in Tasks, key \in Keys : WantLock(t, key)
    \/ \E t \in Tasks : AcquireLock(t)
    \/ \E t \in Tasks : CheckUnderLock(t)

RaceSpec == RaceInit /\ [][RaceNext]_vars

-----------------------------------------------------------------------------
(* The hook registry (crates/common/src/hooks.rs) *)

\* the lifecycle events handlers subscribe to, two of the fourteen
HookEvents == {"BeforeToolCall", "MessageSending"}

\* HookAction
Continue == [action |-> "Continue"]

ModifyPayload(v) == [action |-> "ModifyPayload", value |-> v]

Block(reason) == [action |-> "Block", reason |-> reason]

\* what a handler's handle returns: an action, or an error
HandleResults ==
    {Ok(Continue), Ok(Block("denied")), Err("handler failed")}
        \cup { Ok(ModifyPayload(v)) : v \in 1..MaxValue }

\* HookRegistry::new, and no dispatch made yet: `handlers` is the map of the
\* registry and `registered` the history of the handlers registered; the
\* other fields are the locals of the dispatch in progress and the history of
\* the handlers it invoked
NoDispatch ==
    [op |-> "dispatch", handlers |-> << >>, registered |-> << >>, at |-> "idle",
     event |-> "none", list |-> << >>, i |-> 1, last_modify |-> None,
     log |-> << >>, result |-> None]

\* HookRegistry::register of the next handler, which subscribes to `events`:
\* the handler is pushed on the list of each of them in turn (register
\* borrows the registry mutably, so no dispatch is in progress; the record of
\* the last dispatch is dropped)
HookRegister(events) ==
    /\ call.op = "dispatch"
    /\ call.at # "loop"
    /\ Len(call.registered) < MaxHandlers
    /\ LET handler == [name |-> Len(call.registered) + 1, events |-> events]
           push(reg, event) ==
               IF event \in DOMAIN reg
               THEN [reg EXCEPT ![event] = Append(@, handler.name)]
               ELSE reg @@ (event :> << handler.name >>)
           RECURSIVE pushed(_, _)
           pushed(reg, k) ==
               IF k > Len(handler.events) THEN reg
               ELSE pushed(push(reg, handler.events[k]), k + 1)
       IN call' = [NoDispatch EXCEPT
                     !.handlers = pushed(call.handlers, 1),
                     !.registered = Append(call.registered, handler)]
    /\ UNCHANGED gatewayVars

\* HookRegistry::dispatch of a payload of `event`, up to the loop: with no
\* handler for the event it returns at once
DispatchStart(event) ==
    /\ call.op = "dispatch"
    /\ call.at # "loop"
    /\ LET some == event \in DOMAIN call.handlers /\ call.handlers[event] # << >>
       IN call' = [call EXCEPT
                     !.event = event,
                     !.list = IF some THEN call.handlers[event] ELSE << >>,
                     !.i = 1,
                     !.last_modify = None,
                     !.log = << >>,
                     !.at = IF some THEN "loop" ELSE "returned",
                     !.result = IF some THEN None ELSE Some(Ok(Continue))]
    /\ UNCHANGED gatewayVars

\* mutant: a Block is noted like a Continue and the loop goes on
DispatchHandle_block_ignored(r) ==
    /\ call.op = "dispatch"
    /\ call.at = "loop"
    /\ call.i <= Len(call.list)
    /\ LET invokedNow == Append(call.log, [handler |-> call.list[call.i], result |-> r])
       IN IF r.ok /\ r.value.action = "ModifyPayload"
          THEN call' = [call EXCEPT !.log = invokedNow,
                                    !.last_modify = Some(r.value.value),
                                    !.i = @ + 1]
          ELSE call' = [call EXCEPT !.log = invokedNow, !.i = @ + 1]
    /\ UNCHANGED gatewayVars

\* mutant: a handler's error is propagated with `?`
DispatchHandle_error_propagated(r) ==
    /\ call.op = "dispatch"
    /\ call.at = "loop"
    /\ call.i <= Len(call.list)
    /\ LET invokedNow == Append(call.log, [handler |-> call.list[call.i], result |-> r])
       IN IF ~r.ok
          THEN call' = [call EXCEPT !.log = invokedNow,
                                    !.at = "returned",
                                    !.result = Some(r)]
          ELSE IF r.value.action = "Block"
          THEN call' = [call EXCEPT !.log = invokedNow,
                                    !.at = "returned",
                                    !.result = Some(Ok(Block(r.value.reason)))]
          ELSE IF r.value.action = "ModifyPayload"
          THEN call' = [call EXCEPT !.log = invokedNow,
                                    !.last_modify = Some(r.value.value),
                                    !.i = @ + 1]
          ELSE call' = [call EXCEPT !.log = invokedNow, !.i = @ + 1]
    /\ UNCHANGED gatewayVars

\* one turn of the loop: the next handler is awaited and returns r
DispatchHandle(r) ==
    /\ call.op = "dispatch"
    /\ call.at = "loop"
    /\ call.i <= Len(call.list)
    /\ LET invokedNow == Append(call.log, [handler |-> call.list[call.i], result |-> r])
       IN IF r.ok /\ r.value.action = "Block"
          THEN call' = [call EXCEPT !.log = invokedNow,
                                    !.at = "returned",
                                    !.result = Some(Ok(Block(r.value.reason)))]
          ELSE IF r.ok /\ r.value.action = "ModifyPayload"
          THEN call' = [call EXCEPT !.log = invokedNow,
                                    !.last_modify = Some(r.value.value),
                                    !.i = @ + 1]
          ELSE call' = [call EXCEPT !.log = invokedNow, !.i = @ + 1]
    /\ UNCHANGED gatewayVars

\* mutant: the modification noted last is forgotten
DispatchReturn_continue ==
    /\ call.op = "dispatch"
    /\ call.at = "loop"
    /\ call.i > Len(call.list)
    /\ call' = [call EXCEPT !.at = "returned", !.result = Some(Ok(Continue))]
    /\ UNCHANGED gatewayVars

\* the loop is over: the last modification, if any, is returned
DispatchReturn ==
    /\ call.op = "dispatch"
    /\ call.at = "loop"
    /\ call.i > Len(call.list)
    /\ call' = [call EXCEPT
                  !.at = "returned",
                  !.result = Some(Ok(IF call.last_modify.some
                                     THEN ModifyPayload(call.last_modify.v)
                                     ELSE Continue))]
    /\ UNCHANGED gatewayVars

HookInit == GatewayInit /\ call = NoDispatch

HookNext ==
    \/ \E events \in {<< e >> : e \in HookEvents}
                        \cup {<< "BeforeToolCall", "MessageSending" >>} :
          HookRegister(events)
    \/ \E event \in HookEvents : DispatchStart(event)
    \/ \E r \in HandleResults : DispatchHandle(r)
    \/ DispatchReturn

HookSpec == HookInit /\ [][HookNext]_vars

-----------------------------------------------------------------------------
(* chunk_response (crates/auto-reply/src/chunk.rs) *)

\* str::len: the length of text in bytes; of the two chars texts are made
\* of, "a" takes one byte of UTF-8 and "e_acute" (U+00E9) two
RECURSIVE len(_)
len(text) ==
    IF text = << >> THEN 0
    ELSE (IF Head(text) = "a" THEN 1 ELSE 2) + len(Tail(text))

\* text is a sequence of chars; the chars are cut into runs of max_len, the
\* last one shorter when max_len does not divide their number
chunk_response(text, max_len) ==
    IF len(text) <= max_len
    THEN << text >>
    ELSE LET chars == text
             n == (Len(chars) + max_len - 1) \div max_len
         IN [k \in 1..n |->
                SubSeq(chars, (k - 1) * max_len + 1,
                       IF k * max_len < Len(chars) THEN k * max_len ELSE Len(chars))]

ChunkInit ==
    /\ GatewayInit
    /\ \E text \in SeqsUpTo({"a", "e_acute"}, MaxText), max_len \in 1..MaxChunk :
          call = [op |-> "chunk_response", text |-> text, max_len |-> max_len,
                  done |-> FALSE, result |-> << >>]

ChunkCall ==
    /\ call.op = "chunk_response"
    /\ ~call.done
    /\ call' = [call EXCEPT !.done = TRUE,
                            !.result = chunk_response(call.text, call.max_len)]
    /\ UNCHANGED gatewayVars

ChunkSpec == ChunkInit /\ [][ChunkCall]_vars

-----------------------------------------------------------------------------
(* Properties of the handshake *)

Last(s) == s[Len(s)]

Elems(list) == { list[i] : i \in 1..Len(list) }

\* the connect request that msg carries
ConnectRequest(msg) == decode(msg.body).value

\* msg is a connect request whose params parse and whose protocol range
\* contains PROTOCOL_VERSION
GoodConnect(msg) ==
    /\ IsConnect(msg)
    /\ ConnectRequest(msg).params.min_protocol <= PROTOCOL_VERSION
    /\ PROTOCOL_VERSION <= ConnectRequest(msg).params.max_protocol

\* msg is a connect request whose params parse and whose protocol range
\* does not contain PROTOCOL_VERSION
MismatchedConnect(msg) ==
    /\ IsConnect(msg)
    /\ \/ ConnectRequest(msg).params.min_protocol > PROTOCOL_VERSION
       \/ ConnectRequest(msg).params.max_protocol < PROTOCOL_VERSION

\* names lists every element of S once, in ascending byte order
SortedListOf(names, S) ==
    /\ Elems(names) = S
    /\ \A i, j \in 1..Len(names) : i < j => StrLess(names[i], names[j])

IsErrorResponse(frame, id, code) ==
    /\ frame.type = "response"
    /\ frame.id = id
    /\ frame.ok = FALSE
    /\ frame.error.code = code

\* C1: once the first text frame was a connect request with parseable params
\* and a protocol range containing PROTOCOL_VERSION, exactly one frame has been
\* enqueued, the ok response with the connect request's id whose result is a
\* hello-ok listing the registered method names in sorted order ("health"
\* among them); the peer is not yet registered when that frame is enqueued and
\* is then registered under the conn_id the hello-ok reports.
C1_HelloThenRegister ==
    \A c \in Conns :
        GoodConnect(lastIn[c]) =>
            /\ pc[c] \in {"register", "serve"}
            /\ Len(out[c]) = 1
            /\ out[c][1].type = "response"
            /\ out[c][1].id = ConnectRequest(lastIn[c]).id
            /\ out[c][1].ok = TRUE
            /\ out[c][1].result.type = "hello-ok"
            /\ SortedListOf(out[c][1].result.features.methods,
                            DOMAIN Registry.handlers)
            /\ "health" \in Elems(out[c][1].result.features.methods)
            /\ pc[c] = "register" =>
                   out[c][1].result.server.conn_id \notin DOMAIN clients
            /\ pc[c] = "serve" =>
                   /\ out[c][1].result.server.conn_id \in DOMAIN clients
                   /\ clients[out[c][1].result.server.conn_id].conn_id
                          = out[c][1].result.server.conn_id

\* a peer is registered after a good connect and its hello-ok is on the wire
C1_Witness ==
    \E c \in Conns :
        /\ GoodConnect(lastIn[c])
        /\ pc[c] = "serve"
        /\ ConnId(c) \in DOMAIN clients
        /\ Len(wire[c]) = 1
        /\ wire[c][1].result.type = "hello-ok"

\* C2: after a connect request whose protocol range does not contain
\* PROTOCOL_VERSION, the connection is closed only with the INVALID_REQUEST
\* response for the connect request's id written to the wire (the transport
\* accepting writes), and the connection is not in the registry.
C2_MismatchAnsweredOnWire ==
    \A c \in Conns :
        (MismatchedConnect(lastIn[c]) /\ pc[c] = "closed" /\ writer[c] # "stopped") =>
            /\ Len(wire[c]) = 1
            /\ IsErrorResponse(wire[c][1], ConnectRequest(lastIn[c]).id,
                               INVALID_REQUEST)
            /\ ConnId(c) \notin DOMAIN clients

\* the first text frame is garbage, no request, or a request for another method
BadFirstFrame(msg) ==
    /\ msg.kind = "text"
    /\ \/ ~decode(msg.body).ok
       \/ decode(msg.body).value.type # "request"
       \/ decode(msg.body).value.method # "connect"

\* C3: when the handshake timer expired, or the first text frame failed to
\* parse, was not a request or was a request for a method other than connect,
\* the connection is closed, no frame was enqueued or written, and the
\* connection is not in the registry.
C3_SilentClose ==
    \A c \in Conns :
        (\/ lastIn[c] = TimerFired
         \/ pc[c] \notin {"serve", "cleanup"} /\ BadFirstFrame(lastIn[c])) =>
            /\ pc[c] = "closed"
            /\ out[c] = << >>
            /\ wire[c] = << >>
            /\ ConnId(c) \notin DOMAIN clients

\* the timer expired after binary, ping or pong frames had been received
C3_Witness ==
    \E c \in Conns :
        /\ lastIn[c] = TimerFired
        /\ nrecv[c] > 0
        /\ pc[c] = "closed"

\* the handshake ended on a well-formed request for a method other than connect
WrongMethodFirst(c) ==
    /\ pc[c] = "closed"
    /\ lastIn[c].kind = "text"
    /\ decode(lastIn[c].body).ok
    /\ decode(lastIn[c].body).value.type = "request"
    /\ decode(lastIn[c].body).value.method # "connect"

\* C4 as stated: a well-formed first request whose method is not connect is
\* answered with an INVALID_REQUEST response carrying its id.
C4_WrongMethodAnswered ==
    \A c \in Conns :
        WrongMethodFirst(c) =>
            \E i \in 1..Len(out[c]) :
                IsErrorResponse(out[c][i], decode(lastIn[c].body).value.id,
                                INVALID_REQUEST)

\* C4 amended: a well-formed first request whose method is not connect gets no
\* frame at all before the connection is closed; of the handshake violations
\* that carry a request id only the protocol mismatch is answered, with one
\* INVALID_REQUEST response carrying the connect request's id.
C4_OnlyMismatchAnswered ==
    \A c \in Conns :
        /\ WrongMethodFirst(c) => out[c] = << >> /\ wire[c] = << >>
        /\ (pc[c] \in {"reject", "closed"} /\ MismatchedConnect(lastIn[c])) =>
              /\ Len(out[c]) = 1
              /\ IsErrorResponse(out[c][1], ConnectRequest(lastIn[c]).id,
                                 INVALID_REQUEST)

\* a first request for "health" closed the connection unanswered
C4_Witness ==
    \E c \in Conns :
        /\ WrongMethodFirst(c)
        /\ decode(lastIn[c].body).value.method = "health"
        /\ out[c] = << >>
        /\ writer[c] = "aborted"

-----------------------------------------------------------------------------
(* Properties of authorize_method *)

NodeOnly == Elems(NODE_METHODS)
ReadSet == Elems(READ_METHODS)
WriteSet == Elems(WRITE_METHODS)
ApprovalsSet == Elems(APPROVAL_METHODS)
PairingSet == Elems(PAIRING_METHODS)

Holds(s, scope) == scope \in Elems(s)

AuthDone == call.op = "authorize_method" /\ call.done

\* C5: authorize_method allows a call if and only if the method is node-only
\* and the role is node, or the method is not node-only, the role is operator
\* and the scopes hold admin or the scope of the method's class (approvals,
\* pairing, read-or-write for the read set, write for the write set).
C5_AuthorizeIff ==
    AuthDone =>
        LET m == call.method
            r == call.role
            s == call.scopes
        IN  (call.result = None) <=>
              \/ m \in NodeOnly /\ r = "node"
              \/ /\ m \notin NodeOnly
                 /\ r = "operator"
                 /\ \/ Holds(s, ADMIN)
                    \/ m \in ApprovalsSet /\ Holds(s, APPROVALS)
                    \/ m \in PairingSet /\ Holds(s, PAIRING)
                    \/ m \in ReadSet /\ (Holds(s, READ) \/ Holds(s, WRITE))
                    \/ m \in WriteSet /\ Holds(s, WRITE)

\* an admin operator was refused a node-only method
C5_Witness ==
    /\ AuthDone
    /\ call.role = "operator"
    /\ call.method = "node.event"
    /\ call.scopes = << ADMIN >>
    /\ call.result # None

\* C6: for role node the result is the same for every other scope list, and it
\* is 'allow' exactly for the node-only methods.
C6_NodeIgnoresScopes ==
    (AuthDone /\ call.role = "node") =>
        /\ \A s2 \in ScopeLists :
              authorize_method(call.method, "node", s2) = call.result
        /\ (call.result = None) <=>
              call.method \in {"node.invoke.result", "node.event", "skills.bins"}

\* a node presenting admin was refused a method that is not node-only
C6_Witness ==
    /\ AuthDone
    /\ call.role = "node"
    /\ Holds(call.scopes, ADMIN)
    /\ call.method = "config.get"
    /\ call.result # None

\* the scope the class of an operator method requires
ClassScope(m) ==
    CASE m \in ApprovalsSet -> APPROVALS
      [] m \in PairingSet -> PAIRING
      [] m \in ReadSet -> READ
      [] m \in WriteSet -> WRITE
      [] OTHER -> ADMIN

\* C7 as stated: every denial has code INVALID_REQUEST, and for an operator
\* without admin its message names the scope of the method's class,
\* operator.admin for a method in none of the four operator sets.
C7_DenialNamesScope ==
    (AuthDone /\ call.result # None) =>
        /\ call.result.v.code = INVALID_REQUEST
        /\ (call.role = "operator" /\ ~Holds(call.scopes, ADMIN)) =>
              call.result.v.message = "missing scope: " \o ClassScope(call.method)

\* C7 amended: every denial has code INVALID_REQUEST; for an operator without
\* admin the message names the scope of the method's class, operator.admin
\* for a method in none of the four operator sets that is not node-only; a
\* node-only method is refused with "unauthorized role: operator" instead.
C7_DenialNamesScopeOrRole ==
    (AuthDone /\ call.result # None) =>
        /\ call.result.v.code = INVALID_REQUEST
        /\ (call.role = "operator" /\ ~Holds(call.scopes, ADMIN)) =>
              call.result.v.message =
                  IF call.method \in NodeOnly
                  THEN "unauthorized role: operator"
                  ELSE "missing scope: " \o ClassScope(call.method)

\* an operator holding only operator.read was refused "send"
C7_Witness ==
    /\ AuthDone
    /\ call.role = "operator"
    /\ call.scopes = << READ >>
    /\ call.method = "send"
    /\ call.result = Some(ErrorShape(INVALID_REQUEST, "missing scope: operator.write"))

-----------------------------------------------------------------------------
(* Properties of dispatch *)

\* this step handles a request frame of registered connection c
IsServeRequestStep(c) ==
    /\ pc[c] = "serve"
    /\ nrecv'[c] = nrecv[c] + 1
    /\ lastIn'[c].kind = "text"
    /\ decode(lastIn'[c].body).ok
    /\ decode(lastIn'[c].body).value.type = "request"

\* the authorization of request req for the caller registered as c
CallerAuth(c, req) ==
    authorize_method(req.method, role(clients[ConnId(c)]),
                     scopes(clients[ConnId(c)]))

\* C8: a handler runs only for a call that authorize_method allowed; when it
\* denies, no handler runs, registry, seq and dedupe cache stay as they are,
\* and the response is the failure frame with the request's id carrying the
\* denial's ErrorShape.
C8_DeniedRunsNothing ==
    [][ \A c \in Conns :
          IsServeRequestStep(c) =>
            LET req == decode(lastIn'[c].body).value
                auth == CallerAuth(c, req)
            IN  /\ invoked'[c] # invoked[c] => auth = None
                /\ auth # None =>
                      /\ invoked' = invoked
                      /\ clients' = clients
                      /\ seq' = seq
                      /\ dedupe' = dedupe
                      /\ out'[c] = Append(out[c], ResponseErr(req.id, auth.v)) ]_vars

\* the connection's last message is a request handled in the message loop
ServedRequest(c) ==
    /\ pc[c] = "serve"
    /\ Len(out[c]) >= 2
    /\ lastIn[c].kind = "text"
    /\ decode(lastIn[c].body).ok
    /\ decode(lastIn[c].body).value.type = "request"

\* an operator holding only operator.read was refused "send" and no handler ran
C8_Witness ==
    \E c \in Conns :
        /\ ServedRequest(c)
        /\ decode(lastIn[c].body).value.method = "send"
        /\ session[c] = [role |-> "operator", scopes |-> << READ >>]
        /\ invoked[c] = << >>
        /\ Last(out[c]) = ResponseErr(decode(lastIn[c].body).value.id,
              ErrorShape(INVALID_REQUEST, "missing scope: operator.write"))

\* the method has no handler and belongs to no classification list
Unregistered(m) ==
    /\ m \notin DOMAIN Registry.handlers
    /\ m \notin NodeOnly \cup ReadSet \cup WriteSet \cup ApprovalsSet \cup PairingSet

\* C9 as stated: an operator registered with scopes ["operator.read"] that
\* requests a method without handler is answered INVALID_REQUEST with the
\* message "unknown method: <name>".
C9_UnknownMethodForReader ==
    \A c \in Conns :
        (/\ ServedRequest(c)
         /\ session[c] = [role |-> "operator", scopes |-> << READ >>]
         /\ decode(lastIn[c].body).value.method \notin DOMAIN Registry.handlers) =>
            Last(out[c]) =
                ResponseErr(decode(lastIn[c].body).value.id,
                    ErrorShape(INVALID_REQUEST,
                        "unknown method: " \o decode(lastIn[c].body).value.method))

\* C9 amended: an operator that requests a method without handler is answered
\* INVALID_REQUEST with "unknown method: <name>" when its scopes hold admin;
\* without admin (scopes ["operator.read"]) authorization refuses the request
\* first, with INVALID_REQUEST and "missing scope: operator.admin".
C9_UnknownMethodNeedsAdmin ==
    \A c \in Conns :
        (/\ ServedRequest(c)
         /\ session[c].role = "operator"
         /\ Unregistered(decode(lastIn[c].body).value.method)) =>
            LET req == decode(lastIn[c].body).value
            IN  Last(out[c]) =
                    ResponseErr(req.id,
                        ErrorShape(INVALID_REQUEST,
                            IF Holds(session[c].scopes, ADMIN)
                            THEN "unknown method: " \o req.method
                            ELSE "missing scope: operator.admin"))

\* an admin operator was told that "nonexistent" is an unknown method
C9_Witness ==
    \E c \in Conns :
        /\ ServedRequest(c)
        /\ session[c] = [role |-> "operator", scopes |-> << ADMIN >>]
        /\ decode(lastIn[c].body).value.method = "nonexistent"
        /\ Last(out[c]).error.message = "unknown method: nonexistent"

\* C10: an authorized request for a registered method runs the handler once
\* and yields exactly one response with the request's id: ok with the
\* handler's value, or the failure frame with the handler's own ErrorShape.
C10_HandlerResultWrapped ==
    [][ \A c \in Conns :
          IsServeRequestStep(c) =>
            LET req == decode(lastIn'[c].body).value
            IN  (CallerAuth(c, req) = None /\ req.method \in DOMAIN Registry.handlers) =>
                  /\ Len(invoked'[c]) = Len(invoked[c]) + 1
                  /\ out'[c] = Append(out[c],
                        IF Last(invoked'[c]).ok
                        THEN ResponseOk(req.id, Last(invoked'[c]).value)
                        ELSE ResponseErr(req.id, Last(invoked'[c]).err)) ]_vars

\* a collaborator's handler returned its own error and it came back unchanged
C10_Witness ==
    \E c \in Conns :
        /\ ServedRequest(c)
        /\ decode(lastIn[c].body).value.method = "plugin.op"
        /\ invoked[c] # << >>
        /\ ~Last(invoked[c]).ok
        /\ Last(out[c]) = ResponseErr(decode(lastIn[c].body).value.id,
              [code |-> "NOT_FOUND", message |-> "no such thing", data |-> "detail"])

-----------------------------------------------------------------------------
(* Properties of a registered connection *)

\* the event frames among frames, in their order
Events(frames) == SelectSeq(frames, LAMBDA f : f.type = "event")

\* the positions in which the task of a registered connection can be
RegisteredPcs == {"serve", "cleanup", "panicked"}

\* C11: when the handler of a request panics, the peer is sent a response for
\* that request id whose error code is INTERNAL_ERROR, and the connection
\* stays registered and goes on serving
C11_PanicAnswered ==
    \A c \in Conns :
        (invoked[c] # << >> /\ Last(invoked[c]) = Panicked) =>
            /\ \E i \in 1..Len(out[c]) :
                  IsErrorResponse(out[c][i], ConnectRequest(lastIn[c]).id,
                                  "INTERNAL_ERROR")
            /\ pc[c] = "serve"
            /\ ConnId(c) \in DOMAIN clients

\* C12: the keys of the registry are exactly the connections registered
\* after a successful handshake and not yet torn down, none of them a
\* connection whose handshake is pending or failed or whose teardown ran,
\* and client_count is the number of those connections
C12_RegistryIsLiveSet ==
    /\ DOMAIN clients = { ConnId(c) : c \in { d \in Conns : pc[d] \in RegisteredPcs } }
    /\ client_count(clients) = Cardinality({ d \in Conns : pc[d] \in RegisteredPcs })
    /\ \A c \in Conns :
          pc[c] \in {"idle", "handshake", "reject", "register", "closed"} =>
             ConnId(c) \notin DOMAIN clients

\* one connection was registered and torn down while another is registered
C12_Witness ==
    \E c, d \in Conns :
        /\ pc[c] = "closed"
        /\ out[c] # << >>
        /\ out[c][1].ok
        /\ pc[d] = "serve"
        /\ DOMAIN clients = { ConnId(d) }
        /\ client_count(clients) = 1

\* role and scopes a connect request asks for
RoleOf(params) == IF params.role.some THEN params.role.v ELSE "operator"
ScopesOf(params) == IF params.scopes.some THEN params.scopes.v ELSE << >>

\* C13: role and scopes are taken from the connect params at registration,
\* "operator" and no scopes standing for absent ones; no later step, a
\* further "connect" request included, changes them, the conn_id or the
\* registry entry, and every request is authorized with them
C13_SessionFixed ==
    [][ \A c \in Conns :
          /\ (pc[c] = "register" /\ pc'[c] = "serve") =>
                /\ session'[c].role = RoleOf(ConnectRequest(lastIn[c]).params)
                /\ session'[c].scopes = ScopesOf(ConnectRequest(lastIn[c]).params)
                /\ clients'[ConnId(c)] =
                      ConnectedClient(ConnId(c), ConnectRequest(lastIn[c]).params)
          /\ (pc[c] \in RegisteredPcs) =>
                /\ session'[c] = session[c]
                /\ ConnId(c) \in DOMAIN clients' =>
                      clients'[ConnId(c)] = clients[ConnId(c)]
          /\ IsServeRequestStep(c) =>
                LET req == decode(lastIn'[c].body).value
                    auth == authorize_method(req.method,
                               RoleOf(clients[ConnId(c)].connect_params),
                               ScopesOf(clients[ConnId(c)].connect_params))
                IN  IF auth.some
                    THEN out'[c] = Append(out[c], ResponseErr(req.id, auth.v))
                    ELSE \/ pc'[c] = "panicked"
                         \/ /\ Len(out'[c]) = Len(out[c]) + 1
                            /\ \/ Last(out'[c]).ok
                               \/ Last(out'[c]).error.message
                                     \notin { "missing scope: " \o s : s \in ScopeNames }
                                       \cup { "unauthorized role: " \o r : r \in Roles } ]_vars

\* a registered peer whose connect params named no role asked to connect
\* again as a node and is still an operator
C13_Witness ==
    \E c \in Conns :
        /\ pc[c] = "serve"
        /\ nrecv[c] > 0
        /\ lastIn[c].kind = "text"
        /\ decode(lastIn[c].body).ok
        /\ decode(lastIn[c].body).value.type = "request"
        /\ decode(lastIn[c].body).value.method = "connect"
        /\ decode(lastIn[c].body).value.params.role = Some("node")
        /\ ~clients[ConnId(c)].connect_params.role.some
        /\ session[c].role = "operator"

\* C14: the event frames handed to one peer carry consecutive seq values, in
\* increasing order, whatever the tick timer and the other connections do
C14_NoGapForPeer ==
    \A c \in Conns :
        \A i \in 1..(Len(Events(out[c])) - 1) :
            Events(out[c])[i + 1].seq = Events(out[c])[i].seq + 1

\* C15: of two event frames handed to one peer, the one with the smaller
\* seq is enqueued first
C15_EnqueuedInSeqOrder ==
    \A c \in Conns :
        \A i, j \in 1..Len(Events(out[c])) :
            Events(out[c])[i].seq < Events(out[c])[j].seq => i < j

\* C16: the frames written to the wire of a peer are a prefix of the frames
\* enqueued for it, and while its write loop runs the frames written and
\* the frames still queued are together the frames enqueued, in order
C16_WireIsPrefix ==
    \A c \in Conns :
        /\ Len(wire[c]) <= Len(out[c])
        /\ wire[c] = SubSeq(out[c], 1, Len(wire[c]))
        /\ writer[c] = "running" => wire[c] \o queue[c] = out[c]

\* the hello, a response and a tick event reached the wire of one peer
C16_Witness ==
    \E c \in Conns :
        /\ Len(wire[c]) >= 3
        /\ Len(Events(wire[c])) >= 1
        /\ \E i \in 2..Len(wire[c]) : wire[c][i].type = "response"

\* C17: the step that takes a request frame of a registered peer hands
\* exactly one frame to its queue, the response carrying the id of that
\* request, before any further frame is read
C17_OneResponsePerRequest ==
    [][ \A c \in Conns :
          IsServeRequestStep(c) =>
            /\ Len(out'[c]) = Len(out[c]) + 1
            /\ SubSeq(out'[c], 1, Len(out[c])) = out[c]
            /\ Last(out'[c]).type = "response"
            /\ Last(out'[c]).id = decode(lastIn'[c].body).value.id ]_vars

-----------------------------------------------------------------------------
(* Properties of the idempotency cache *)

\* check_and_insert has returned
Checked == call.op = "check_and_insert"

\* the age the entry of key k had when the last call was made
AgeAtCall(k) == call.at - call.before[k]

\* C18: whenever check_and_insert has returned, whatever the keys and the
\* time between the calls, the cache holds at most DEDUPE_MAX_ENTRIES entries
C18_CacheBounded ==
    Cardinality(DOMAIN dedupe) <= DEDUPE_MAX_ENTRIES

\* a new key came to a full cache none of whose entries had expired
C18_Witness ==
    /\ Checked
    /\ ~call.dup
    /\ Cardinality(DOMAIN call.before) = DEDUPE_MAX_ENTRIES
    /\ evict_expired(call.before, call.at) = call.before
    /\ call.key \in DOMAIN dedupe
    /\ Cardinality(DOMAIN dedupe) = DEDUPE_MAX_ENTRIES

\* C19: check_and_insert(k) returns false when the cache holds no entry of
\* k and true while the entry of k is not older than the TTL; a call made
\* when the entry is older returns false and inserts k anew with the
\* current time; lazy expiration drops no entry that is not older than the TTL
C19_DuplicateWithinTtl ==
    Checked =>
        /\ call.key \notin DOMAIN call.before =>
              ~call.dup /\ dedupe[call.key] = call.at
        /\ (call.key \in DOMAIN call.before /\ AgeAtCall(call.key) <= DEDUPE_TTL_MS) =>
              call.dup
        /\ (call.key \in DOMAIN call.before /\ AgeAtCall(call.key) > DEDUPE_TTL_MS) =>
              ~call.dup /\ dedupe[call.key] = call.at
        /\ call.dup =>
              \A k \in DOMAIN call.before :
                  AgeAtCall(k) <= DEDUPE_TTL_MS => k \in DOMAIN dedupe

\* C20: a call that finds its key returns true and leaves the timestamp of
\* that entry and every other entry that has not expired as they were,
\* adding none; a call that does not find it stamps the key with the
\* current time, so the timestamp of an entry is always the time of the
\* call that inserted it
C20_DuplicateKeepsTimestamps ==
    Checked =>
        /\ call.dup =>
              /\ call.key \in DOMAIN call.before
              /\ dedupe[call.key] = call.before[call.key]
              /\ DOMAIN dedupe \subseteq DOMAIN call.before
              /\ \A k \in DOMAIN call.before :
                    IF AgeAtCall(k) < DEDUPE_TTL_MS
                    THEN k \in DOMAIN dedupe /\ dedupe[k] = call.before[k]
                    ELSE k \notin DOMAIN dedupe
        /\ ~call.dup => dedupe[call.key] = call.at
        /\ (call.key \in DOMAIN call.before /\ AgeAtCall(call.key) < DEDUPE_TTL_MS) =>
              call.dup

\* a key was found some time after it was inserted, next to another entry
C20_Witness ==
    /\ Checked
    /\ call.dup
    /\ call.at > call.before[call.key]
    /\ dedupe[call.key] = call.before[call.key]
    /\ Cardinality(DOMAIN dedupe) >= 2

\* the entries lazy expiration left to the last call
LiveAtCall ==
    [k \in { j \in DOMAIN call.before : AgeAtCall(j) < DEDUPE_TTL_MS } |-> call.before[k]]

\* C21: when check_and_insert is given a key the cache does not hold and
\* lazy expiration leaves DEDUPE_MAX_ENTRIES entries, the call removes exactly
\* one of them, one no other was inserted before, keeps every other entry as
\* it was, inserts the key with the current time and returns false
C21_EvictsOneOldest ==
    (/\ Checked
     /\ call.key \notin DOMAIN LiveAtCall
     /\ Cardinality(DOMAIN LiveAtCall) >= DEDUPE_MAX_ENTRIES) =>
        /\ ~call.dup
        /\ \E old \in DOMAIN LiveAtCall :
              /\ \A j \in DOMAIN LiveAtCall : LiveAtCall[old] <= LiveAtCall[j]
              /\ DOMAIN dedupe = (DOMAIN LiveAtCall \ {old}) \cup {call.key}
              /\ \A k \in DOMAIN LiveAtCall \ {old} : dedupe[k] = LiveAtCall[k]
              /\ dedupe[call.key] = call.at

\* a new key came to a full cache whose entries were inserted at different
\* times, and the older of them went
C21_Witness ==
    /\ Checked
    /\ ~call.dup
    /\ call.key \notin DOMAIN LiveAtCall
    /\ Cardinality(DOMAIN LiveAtCall) = DEDUPE_MAX_ENTRIES
    /\ \A j, k \in DOMAIN LiveAtCall : j # k => LiveAtCall[j] # LiveAtCall[k]
    /\ \E k \in DOMAIN LiveAtCall : k \notin DOMAIN dedupe
    /\ call.at > 0

-----------------------------------------------------------------------------
(* Properties of the message loop *)

\* the step receives from registered connection c a text that does not decode
IsServeInvalidStep(c) ==
    /\ pc[c] = "serve"
    /\ nrecv'[c] = nrecv[c] + 1
    /\ lastIn'[c].kind = "text"
    /\ ~decode(lastIn'[c].body).ok

\* connection c was sent an "error" event
HadInvalid(c) ==
    \E i \in 1..Len(out[c]) : out[c][i].type = "event" /\ out[c][i].name = "error"

\* the step enqueues one "error" event for c and nothing for any other
\* peer, and leaves c registered and in the message loop
ErrorEventOnly(c) ==
    /\ Len(out'[c]) = Len(out[c]) + 1
    /\ SubSeq(out'[c], 1, Len(out[c])) = out[c]
    /\ Last(out'[c]).type = "event"
    /\ Last(out'[c]).name = "error"
    /\ \A d \in Conns \ {c} : out'[d] = out[d] /\ queue'[d] = queue[d]
    /\ clients' = clients
    /\ ConnId(c) \in DOMAIN clients'
    /\ pc'[c] = "serve"

\* C22: a text frame of a registered peer that does not decode has one
\* "error" event enqueued for that peer and for no other, the peer stays
\* registered, and a request the peer sends afterwards on the connection is
\* dispatched and has its response enqueued
C22_InvalidFrameKeepsServing ==
    [][ \A c \in Conns :
          /\ IsServeInvalidStep(c) => ErrorEventOnly(c)
          /\ (IsServeRequestStep(c) /\ HadInvalid(c)) =>
                /\ Len(out'[c]) = Len(out[c]) + 1
                /\ Last(out'[c]).type = "response"
                /\ Last(out'[c]).id = decode(lastIn'[c].body).value.id
                /\ pc'[c] = "serve" ]_vars

\* the stream of registered connection c has yielded a Close frame, a read
\* error or its end
EndedRegistered(c) == lastIn[c] = StreamEnded /\ ConnId(c) \in DOMAIN clients

\* the task serving c has torn the connection down
TornDown(c) == pc[c] = "closed" /\ ConnId(c) \notin DOMAIN clients

\* C23: once the stream of a registered peer has yielded a Close frame, a
\* read error or its end, the connection is eventually torn down and its
\* conn_id removed from the registry, and from then on the registry never
\* holds that conn_id again
C23_EndedIsRemoved ==
    \A c \in Conns :
        /\ EndedRegistered(c) ~> TornDown(c)
        /\ [](TornDown(c) => [](ConnId(c) \notin DOMAIN clients))

\* a peer that was registered and served sent a Close frame and is gone
C23_Witness ==
    \E c \in Conns :
        /\ TornDown(c)
        /\ lastIn[c] = StreamEnded
        /\ Len(out[c]) >= 1
        /\ out[c][1].type = "response"
        /\ out[c][1].ok
        /\ session[c] # NoSession

\* the write loop of registered connection c has stopped on a failed write
WriteFailedRegistered(c) == writer[c] = "stopped" /\ ConnId(c) \in DOMAIN clients

\* C24: when a write to the transport of a registered peer has failed and
\* its write loop has stopped, the connection is eventually torn down and the
\* peer removed from the registry, whether or not the peer sends anything
C24_WriteFailureTearsDown ==
    \A c \in Conns : WriteFailedRegistered(c) ~> TornDown(c)

\* C25: when a registered connection has been torn down after its stream
\* ended and no write to its transport has failed, every frame enqueued for
\* the peer has been written to the wire
C25_QueueDrainedAtTeardown ==
    \A c \in Conns :
        (/\ pc[c] = "closed"
         /\ session[c] # NoSession
         /\ lastIn[c] = StreamEnded
         /\ writer[c] # "stopped") => wire[c] = out[c]

-----------------------------------------------------------------------------
(* Properties of the default handlers *)

\* C26: a health request of a registered peer that authorize_method allows
\* is answered with status "ok" and a connections value that is the number
\* of peers in the registry when the request is dispatched, which is at
\* least 1 since the caller is one of them
C26_HealthCountsRegistry ==
    [][ \A c \in Conns :
          (/\ IsServeRequestStep(c)
           /\ decode(lastIn'[c].body).value.method = "health"
           /\ CallerAuth(c, decode(lastIn'[c].body).value) = None) =>
             /\ ConnId(c) \in DOMAIN clients
             /\ clients' = clients
             /\ Last(out'[c]).type = "response"
             /\ Last(out'[c]).id = decode(lastIn'[c].body).value.id
             /\ Last(out'[c]).ok
             /\ Last(out'[c]).result.status = "ok"
             /\ Last(out'[c]).result.connections = Cardinality(DOMAIN clients)
             /\ Last(out'[c]).result.connections >= 1 ]_vars

\* a peer asked for the health of a gateway with two registered peers and
\* was told of two connections
C26_Witness ==
    \E c \in Conns :
        /\ ServedRequest(c)
        /\ decode(lastIn[c].body).value.method = "health"
        /\ Last(out[c]).type = "response"
        /\ Last(out[c]).ok
        /\ Last(out[c]).result.status = "ok"
        /\ Last(out[c]).result.connections = 2
        /\ Cardinality(DOMAIN clients) = 2

-----------------------------------------------------------------------------
(* Properties of the tick timer *)

\* the "tick" events among frames
Ticks(frames) == SelectSeq(frames, LAMBDA f : f.type = "event" /\ f.name = "tick")

\* the largest seq of an event among frames, 0 when there is none
MaxSeqOf(frames) ==
    LET seqs == { frames[i].seq : i \in { j \in 1..Len(frames) : frames[j].type = "event" } }
    IN  IF seqs = {} THEN 0 ELSE CHOOSE s \in seqs : \A t \in seqs : t <= s

\* the timer fires: one "tick" event is built with the seq next_seq returns,
\* larger than that of any event built before, and nothing is enqueued yet
TickBuilt ==
    /\ seq' = seq + 1
    /\ tick'.frame.type = "event"
    /\ tick'.frame.name = "tick"
    /\ tick'.frame.seq = seq'
    /\ \A c \in Conns : MaxSeqOf(out[c]) < tick'.frame.seq
    /\ out' = out

\* the fan-out: the frame built is pushed to every peer in the registry,
\* onto its queue where the write loop still receives, and to no other
TickPushed ==
    /\ seq' = seq
    /\ \A c \in Conns :
          IF ConnId(c) \in DOMAIN clients
          THEN /\ out'[c] = Append(out[c], tick.frame)
               /\ writer[c] = "running" => queue'[c] = Append(queue[c], tick.frame)
          ELSE out'[c] = out[c] /\ queue'[c] = queue[c]

\* C27: each firing of the timer builds exactly one "tick" event with a
\* fresh seq and pushes that frame to every peer registered at the fan-out;
\* the ticks a peer is sent carry strictly increasing seqs, and a peer that
\* stays registered while the timer is to fire is eventually sent a tick
\* whose seq is greater than that of any event it was sent before
C27_TickReachesEveryPeer ==
    /\ [][ /\ (tick.pc = "wait" /\ tick'.pc = "fanout") => TickBuilt
           /\ (tick.pc = "fanout" /\ tick'.pc = "wait") => TickPushed
           /\ tick'.pc = tick.pc =>
                 \A c \in Conns : Ticks(out'[c]) = Ticks(out[c]) ]_vars
    /\ [](\A c \in Conns :
            \A i, j \in 1..Len(Ticks(out[c])) :
                i < j => Ticks(out[c])[i].seq < Ticks(out[c])[j].seq)
    /\ \A c \in Conns : \A n \in 0..(MaxFires + MaxConns * MaxRecv) :
          (/\ ConnId(c) \in DOMAIN clients
           /\ MaxSeqOf(out[c]) = n
           /\ tick.pc = "wait"
           /\ tick.fired < MaxFires)
            ~> (\/ ConnId(c) \notin DOMAIN clients
                \/ \E i \in 1..Len(out[c]) :
                      /\ out[c][i].type = "event"
                      /\ out[c][i].name = "tick"
                      /\ out[c][i].seq > n)

\* two registered peers were sent the same two ticks, the second with the
\* larger seq, one of the peers having been sent an "error" event before
C27_Witness ==
    \E c, d \in Conns :
        /\ c # d
        /\ {ConnId(c), ConnId(d)} \subseteq DOMAIN clients
        /\ Len(Ticks(out[c])) = 2
        /\ Ticks(out[c]) = Ticks(out[d])
        /\ Ticks(out[c])[1].seq < Ticks(out[c])[2].seq
        /\ HadInvalid(c)

-----------------------------------------------------------------------------
(* Properties of the registry and the seq counter *)

\* C28: when register_client is called with a conn_id the registry already
\* holds, the client registered before stays in the registry as it was
C28_RegisterKeepsExisting ==
    (/\ call.op = "register_client"
     /\ call.client.conn_id \in DOMAIN call.before) =>
        /\ call.client.conn_id \in DOMAIN clients
        /\ clients[call.client.conn_id] = call.before[call.client.conn_id]

\* C29: the calls of next_seq that have returned, however the tasks making
\* them interleave, returned pairwise distinct values; the call whose
\* increment was the k-th returned k, so the first value is 1; and a call
\* started after another had returned got the larger value
C29_NextSeqDistinct ==
    call.op = "next_seq" =>
        \A i \in Returned(call.log) :
            /\ call.log[i].ret = call.log[i].nth
            /\ call.log[i].ret >= 1
            /\ \A j \in Returned(call.log) :
                  /\ i # j => call.log[i].ret # call.log[j].ret
                  /\ j \in call.log[i].after => call.log[i].ret > call.log[j].ret

\* two calls that ran at the same time and one started after both have
\* returned, the call started first not being the first to increment
C29_Witness ==
    /\ call.op = "next_seq"
    /\ Returned(call.log) = 1..3
    /\ call.log[1].after = {}
    /\ call.log[2].after = {}
    /\ call.log[1].ret > call.log[2].ret
    /\ call.log[3].after # {}

\* calls i..j, the first and the last of them with the same key, were made
\* within one TTL and no call after the first evicted the key for capacity
SameKeyRun(i, j) ==
    /\ i < j
    /\ call.log[i].key = call.log[j].key
    /\ call.log[j].at - call.log[i].at < DEDUPE_TTL_MS
    /\ \A m \in (i + 1)..j : call.log[i].key \notin call.log[m].evicted

\* the calls among i..j with the key of call i that returned false
Firsts(i, j) ==
    { m \in i..j : call.log[m].key = call.log[i].key /\ ~call.log[m].dup }

\* C30 as stated: of the calls tasks make with the same key under the write
\* lock, all within one TTL and with no capacity eviction of the key in
\* between, exactly one returns false and all the others return true
C30_ExactlyOneFalse ==
    call.op = "race" =>
        \A i, j \in 1..Len(call.log) :
            SameKeyRun(i, j) => Cardinality(Firsts(i, j)) = 1

\* C30: when the cache holds no unexpired entry of the key as the first of
\* such calls is made, that call, the first to take the lock, returns false
\* and all the others return true
C30_OneFalseForNewKey ==
    call.op = "race" =>
        \A i, j \in 1..Len(call.log) :
            (SameKeyRun(i, j) /\ ~call.log[i].held) => Firsts(i, j) = {i}

\* every task waited for the lock with the same key, new to the cache: the
\* first to take it was told false, the others and a later caller true
C30_Witness ==
    /\ call.op = "race"
    /\ Len(call.log) > MaxTasks
    /\ SameKeyRun(1, MaxTasks + 1)
    /\ \A m \in 1..MaxTasks : call.log[m].key = call.log[1].key
    /\ { call.log[m].task : m \in 1..MaxTasks } = Tasks
    /\ call.log[1].waiting = Tasks \ {call.log[1].task}
    /\ ~call.log[1].held
    /\ Firsts(1, MaxTasks + 1) = {1}
    /\ call.log[MaxTasks + 1].at > call.log[1].at

-----------------------------------------------------------------------------
(* Properties of the handshake under broadcasts *)

\* the frame is the response to a connect request: the hello-ok or the
\* refusal of the protocol range
AnswersConnect(frame) ==
    /\ frame.type = "response"
    /\ \/ frame.ok /\ frame.result.type = "hello-ok"
       \/ ~frame.ok /\ frame.error.code = INVALID_REQUEST

\* C31: however the handshakes interleave with the ticks, the first frame
\* enqueued for a connection is the response to its connect request, and a
\* connection is in the registry only when its hello-ok has been enqueued,
\* so no event is enqueued for a connection before its hello-ok
C31_HelloBeforeEvents ==
    \A c \in Conns :
        /\ out[c] # << >> => AnswersConnect(out[c][1])
        /\ ConnId(c) \in DOMAIN clients =>
              /\ out[c] # << >>
              /\ out[c][1].type = "response"
              /\ out[c][1].ok
              /\ out[c][1].result.type = "hello-ok"

\* a tick was built while a connection was between its hello-ok and its
\* registration, and the connection was sent the hello-ok and then the tick
C31_Witness ==
    \E c \in Conns :
        /\ Len(out[c]) >= 2
        /\ AnswersConnect(out[c][1])
        /\ out[c][1].ok
        /\ out[c][2].type = "event"
        /\ out[c][2].name = "tick"
        /\ out[c][2].data.connections = 0

-----------------------------------------------------------------------------
(* Properties of the default registry *)

\* the methods named in one of the five classification lists
Classified == NodeOnly \cup ReadSet \cup WriteSet \cup ApprovalsSet \cup PairingSet

\* C32: every method named in a classification list has a handler in the
\* registry, so a request for a classified method that authorize_method
\* allows runs a handler and is never answered "unknown method"; a response
\* "unknown method" is only given for a method outside the five lists
C32_ClassifiedAreRegistered ==
    /\ \A m \in Classified : m \in DOMAIN Registry.handlers
    /\ [][ \A c \in Conns :
             IsServeRequestStep(c) =>
               LET req == decode(lastIn'[c].body).value
               IN  /\ (req.method \in Classified /\ CallerAuth(c, req) = None) =>
                         /\ invoked'[c] # invoked[c]
                         /\ Len(out'[c]) = Len(out[c]) + 1
                         /\ Last(out'[c]) # UnknownMethod(req.id, req.method)
                   /\ (/\ Len(out'[c]) = Len(out[c]) + 1
                       /\ Last(out'[c]) = UnknownMethod(req.id, req.method)) =>
                         req.method \notin Classified ]_vars

\* an operator holding operator.admin had "send", a write method, answered
\* by its stub, and "nonexistent" was answered as unknown
C32_Witness ==
    \E c \in Conns :
        /\ ServedRequest(c)
        /\ decode(lastIn[c].body).value.method = "send"
        /\ Last(out[c]) = ResponseOk(decode(lastIn[c].body).value.id, [stub |-> TRUE])
        /\ "send" \in WriteSet
        /\ "nonexistent" \notin DOMAIN Registry.handlers \cup Classified

-----------------------------------------------------------------------------
(* Properties of the hook registry *)

\* the handlers registered for event, in the order they were registered
Subscribed(event) ==
    LET subs == SelectSeq(call.registered, LAMBDA h : event \in Elems(h.events))
    IN [k \in 1..Len(subs) |-> subs[k].name]

\* the handlers a dispatch has invoked so far, in the order it invoked them
Invoked == [k \in 1..Len(call.log) |-> call.log[k].handler]

\* the invocations that returned a Block, a ModifyPayload, an error
Blocks == { k \in 1..Len(call.log) :
              call.log[k].result.ok /\ call.log[k].result.value.action = "Block" }

Modifies == { k \in 1..Len(call.log) :
                call.log[k].result.ok /\ call.log[k].result.value.action = "ModifyPayload" }

Failures == { k \in 1..Len(call.log) : ~call.log[k].result.ok }

Greatest(S) == CHOOSE k \in S : \A j \in S : j <= k

HookReturned == call.op = "dispatch" /\ call.at = "returned"

\* C33: dispatch invokes the handlers subscribed to the payload's event in
\* the order they were registered, and the first Block a handler returns is
\* returned at once with its reason: no later handler is invoked, whether or
\* not an earlier one returned ModifyPayload
C33_FirstBlockReturns ==
    (call.op = "dispatch" /\ call.at # "idle") =>
        /\ Len(Invoked) <= Len(Subscribed(call.event))
        /\ Invoked = SubSeq(Subscribed(call.event), 1, Len(Invoked))
        /\ \A k \in Blocks :
              /\ k = Len(call.log)
              /\ call.at = "returned"
              /\ call.result = Some(Ok(Block(call.log[k].result.value.reason)))

\* C33: a handler modified the payload, the next one blocked, and the third
\* handler of the event was not invoked
C33_Witness ==
    /\ HookReturned
    /\ Len(Subscribed(call.event)) = 3
    /\ Len(call.log) = 2
    /\ call.log[1].result = Ok(ModifyPayload(1))
    /\ call.log[2].result = Ok(Block("denied"))
    /\ call.result = Some(Ok(Block("denied")))

\* C34: a dispatch in which no handler returned Block returns the
\* ModifyPayload of the last handler that returned one, and Continue when none
\* did; with no handler registered for the event it returns Continue and
\* invokes nothing
C34_LastModifyWins ==
    (HookReturned /\ Blocks = {}) =>
        /\ Modifies # {} =>
              call.result = Some(Ok(ModifyPayload(
                                call.log[Greatest(Modifies)].result.value.value)))
        /\ Modifies = {} => call.result = Some(Ok(Continue))
        /\ Subscribed(call.event) = << >> =>
              (call.log = << >> /\ call.result = Some(Ok(Continue)))

\* C34: two handlers modified the payload, a third continued, and the second
\* value was returned
C34_Witness ==
    /\ HookReturned
    /\ Len(call.log) = 3
    /\ call.log[1].result = Ok(ModifyPayload(1))
    /\ call.log[2].result = Ok(ModifyPayload(2))
    /\ call.log[3].result = Ok(Continue)
    /\ call.result = Some(Ok(ModifyPayload(2)))

\* the action the invocations other than the failed ones determine
Remaining == SelectSeq(call.log, LAMBDA e : e.result.ok)

RemainingAction ==
    LET blocks == { k \in 1..Len(Remaining) : Remaining[k].result.value.action = "Block" }
        modifies == { k \in 1..Len(Remaining) :
                        Remaining[k].result.value.action = "ModifyPayload" }
    IN IF blocks # {}
       THEN Remaining[CHOOSE k \in blocks : \A j \in blocks : k <= j].result.value
       ELSE IF modifies # {} THEN Remaining[Greatest(modifies)].result.value
       ELSE Continue

\* C35: a handler's error neither ends the dispatch nor blocks the event: the
\* handler after it is invoked, and dispatch returns Ok with the action the
\* other handlers determine
C35_HandlerErrorSkipped ==
    /\ (call.op = "dispatch" /\ call.at = "loop") =>
          \A k \in Failures : call.i > k
    /\ HookReturned =>
          /\ \A k \in Failures :
                k < Len(Subscribed(call.event)) => Len(call.log) > k
          /\ Blocks = {} => Len(call.log) = Len(Subscribed(call.event))
          /\ call.result.some
          /\ call.result.v.ok
          /\ call.result.v.value = RemainingAction

\* C35: the first handler failed, the second was invoked and its
\* modification was returned
C35_Witness ==
    /\ HookReturned
    /\ Len(call.log) = 2
    /\ call.log[1].result = Err("handler failed")
    /\ call.log[2].result = Ok(ModifyPayload(2))
    /\ call.result = Some(Ok(ModifyPayload(2)))

-----------------------------------------------------------------------------
(* Properties of chunk_response *)

RECURSIVE Concat(_)
Concat(chunks) ==
    IF chunks = << >> THEN << >> ELSE Head(chunks) \o Concat(Tail(chunks))

ChunkDone == call.op = "chunk_response" /\ call.done

\* C36: for every text and every max_len >= 1 chunk_response returns at
\* least one chunk, the chunks concatenated in order are the text, and no
\* chunk is longer than max_len bytes
C36_ChunksFitLimit ==
    ChunkDone =>
        /\ call.result # << >>
        /\ Concat(call.result) = call.text
        /\ \A k \in 1..Len(call.result) : len(call.result[k]) <= call.max_len

-----------------------------------------------------------------------------
(* Properties of ConnectedClient.has_scope *)

\* the client an operator presenting scope list s connects as
OperatorClient(s) ==
    ConnectedClient(ConnId(1), ConnectParams(Some("operator"), Some(s), 1, 1))

\* C37: has_scope agrees with authorize_method on the read class: whenever
\* authorize_method lets an operator with some scope list call a read
\* method, has_scope("operator.read") is true of a client with that list
C37_HasScopeMatchesAuthorize ==
    (/\ AuthDone
     /\ call.role = "operator"
     /\ call.method \in ReadSet
     /\ call.result = None)
        => has_scope(OperatorClient(call.scopes), READ)

====
